---- MODULE Spec2Model ----
(***************************************************************************)
(* Model of vault-steward: the changelog service (sessions, change         *)
(* entries, rollback), the text patch engine (applyLinks / applyTags), the *)
(* suggestion filters, the preferences engine (analyzeVault) and the       *)
(* orchestrator commands of main.ts with their suspension points.          *)
(*                                                                         *)
(* Text is modelled as a sequence of one-character strings, so that the    *)
(* empty document is <<>> and every regular expression of the source is    *)
(* evaluated character by character.  An optional value (beforeContent?,   *)
(* a file that may be missing, a nullable reference) is <<>> when absent   *)
(* and <<v>> when present.                                                 *)
(***************************************************************************)
EXTENDS Integers, Sequences, FiniteSets, TLC

VARIABLES
    docs,        \* vault: path -> optional content (absent = no such TFile)
    changelog,   \* ChangelogService fields: currentSession, heap, storage, nextId
    persisted,   \* sessions array of .vault-steward/changelog.json on disk
    ret,         \* the last completed service call and what it returned
    patch,       \* patch engine under test: input text, suggestions, successive results
    flows,       \* the commands of main.ts in flight: position and locals of each
    processingFiles,  \* main.ts: Set of paths the save handler is processing
    writes       \* history: the document writes the commands have made, and by which

svcVars == <<docs, changelog, persisted, ret>>

\* what the change log service never touches
others == <<patch, flows, processingFiles, writes>>

orchVars == <<flows, processingFiles, writes>>

vars == <<docs, changelog, persisted, ret, patch, flows, processingFiles, writes>>

(***************************************************************************)
(* Bounds                                                                  *)
(***************************************************************************)
MaxIds == 3          \* generateId calls per behaviour

MaxFlows == 2        \* command invocations per behaviour

Paths == {"a.md", "b.md"}

\* document contents the service is exercised with: the empty document and "x"
SvcContents == { <<>>, <<"x">> }

(***************************************************************************)
(* Generic helpers                                                         *)
(***************************************************************************)
None == <<>>

Some(v) == <<v>>

IsSome(o) == o # <<>>

\* JavaScript truthiness of an optional string: undefined and "" are falsy
Truthy(o) == IsSome(o) /\ o[1] # <<>>

\* Array.prototype.filter; keep[i] is the callback's verdict on seq[i]
Filter(seq, keep) ==
    LET F[i \in 0..Len(seq)] ==
            IF i = 0 THEN <<>>
            ELSE IF keep[i] THEN Append(F[i-1], seq[i]) ELSE F[i-1]
    IN F[Len(seq)]

\* variant of SliceLast that keeps the first n elements: slice(0, n)
SliceFirst(seq, n) ==
    IF Len(seq) <= n THEN seq ELSE SubSeq(seq, 1, n)

\* Array.prototype.slice(-n)
SliceLast(seq, n) ==
    IF Len(seq) <= n THEN seq ELSE SubSeq(seq, Len(seq) - n + 1, Len(seq))

\* [...arr].reverse()
Reverse(seq) == [i \in 1..Len(seq) |-> seq[Len(seq) + 1 - i]]

\* Array.prototype.find: index of the first element the callback accepts, 0 if none;
\* hit[i] is the callback's verdict on element i
Find(hit) ==
    IF \E i \in 1..Len(hit) : hit[i]
    THEN CHOOSE i \in 1..Len(hit) : hit[i] /\ \A j \in 1..(i-1) : ~hit[j]
    ELSE 0

(***************************************************************************)
(* ChangelogService (src/src/services/changelog-service.ts)                *)
(*                                                                         *)
(* Sessions are JavaScript objects: storage.sessions and currentSession    *)
(* hold references.  heap maps a session id to the object, storage is the  *)
(* array of references, currentSession is 0 (null) or a reference.         *)
(***************************************************************************)
MAX_SESSIONS == 50

\* constructor: storage = { version: 1, sessions: [] }, currentSession = null
NewChangelog == [currentSession |-> 0, heap |-> <<>>, storage |-> <<>>, nextId |-> 1]

\* objects no reference reaches are garbage
Collect(cl) ==
    LET live == {cl.storage[i] : i \in 1..Len(cl.storage)}
                \cup (IF cl.currentSession = 0 THEN {} ELSE {cl.currentSession})
    IN [cl EXCEPT !.heap = [s \in live |-> cl.heap[s]]]

\* generateId(): a fresh identifier
generateId(cl) == cl.nextId

startSession(cl) ==
    LET sessionId == generateId(cl) IN
    Collect([cl EXCEPT
        !.currentSession = sessionId,
        !.heap = [s \in DOMAIN cl.heap \cup {sessionId} |->
                    IF s = sessionId
                    THEN [sessionId |-> sessionId, ended |-> FALSE, changes |-> <<>>]
                    ELSE cl.heap[s]],
        !.nextId = cl.nextId + 1])

\* recordBefore(filePath, content); the id it returns is generateId(cl)
recordBefore(cl, filePath, content) ==
    LET changeId == generateId(cl)
        entry == [id |-> changeId, type |-> "content_modified", filePath |-> filePath,
                  description |-> "Pending...",
                  beforeContent |-> Some(content), afterContent |-> None]
    IN  IF cl.currentSession # 0
        THEN [cl EXCEPT !.heap[cl.currentSession].changes = Append(@, entry),
                        !.nextId = cl.nextId + 1]
        ELSE [cl EXCEPT !.nextId = cl.nextId + 1]

recordAfter(cl, changeId, afterContent, type, description) ==
    IF cl.currentSession = 0 THEN cl
    ELSE LET changes == cl.heap[cl.currentSession].changes
             k == Find([i \in 1..Len(changes) |-> changes[i].id = changeId])
         IN  IF k = 0 THEN cl
             ELSE [cl EXCEPT !.heap[cl.currentSession].changes[k] =
                        [@ EXCEPT !.afterContent = Some(afterContent),
                                  !.type = type,
                                  !.description = description]]

\* recordChange(filePath, type, description, details, beforeContent?, afterContent?)
recordChange(cl, filePath, type, description, beforeContent, afterContent) ==
    LET changeId == generateId(cl)
        entry == [id |-> changeId, type |-> type, filePath |-> filePath,
                  description |-> description,
                  beforeContent |-> beforeContent, afterContent |-> afterContent]
    IN  IF cl.currentSession # 0
        THEN [cl EXCEPT !.heap[cl.currentSession].changes = Append(@, entry),
                        !.nextId = cl.nextId + 1]
        ELSE [cl EXCEPT !.nextId = cl.nextId + 1]

\* JSON.stringify(this.storage) as saveChangelog() takes it: the sessions by value
saveChangelog(cl) == [i \in 1..Len(cl.storage) |-> cl.heap[cl.storage[i]]]

\* variant of endSessionPush that stores the session whether or not it has changes
endSessionPushAlways(cl) ==
    IF cl.currentSession = 0 THEN cl
    ELSE LET s == cl.currentSession
             closed == [cl EXCEPT !.heap[s].ended = TRUE]
         IN  [closed EXCEPT !.storage = SliceLast(Append(@, s), MAX_SESSIONS)]

\* endSession() up to its await: endTime set, session pushed when non-empty, pruned
endSessionPush(cl) ==
    IF cl.currentSession = 0 THEN cl
    ELSE LET s == cl.currentSession
             closed == [cl EXCEPT !.heap[s].ended = TRUE]
         IN  IF Len(closed.heap[s].changes) > 0
             THEN [closed EXCEPT !.storage = SliceLast(Append(@, s), MAX_SESSIONS)]
             ELSE closed

\* whether endSession() reaches saveChangelog()
endSessionSaves(cl) ==
    cl.currentSession # 0 /\ Len(cl.heap[cl.currentSession].changes) > 0

\* endSession() after its await: this.currentSession = null
endSessionClear(cl) == Collect([cl EXCEPT !.currentSession = 0])

\* getSession(sessionId): position in storage.sessions, 0 when undefined
getSession(cl, sessionId) ==
    Find([i \in 1..Len(cl.storage) |-> cl.heap[cl.storage[i]].sessionId = sessionId])

\* rollbackChange: the session (reference) holding changeId, 0 when none
findChangeSession(cl, changeId) ==
    LET k == Find([j \in 1..Len(cl.storage) |->
                     \E i \in 1..Len(cl.heap[cl.storage[j]].changes) :
                        cl.heap[cl.storage[j]].changes[i].id = changeId])
    IN IF k = 0 THEN 0 ELSE cl.storage[k]

findChange(cl, s, changeId) ==
    LET changes == cl.heap[s].changes
    IN  changes[Find([i \in 1..Len(changes) |-> changes[i].id = changeId])]

\* variant of rollbackChangeFails that does not look for the target document
rollbackChangeFailsNoFileCheck(cl, d, changeId) ==
    LET s == findChangeSession(cl, changeId) IN
    \/ s = 0
    \/ ~Truthy(findChange(cl, s, changeId).beforeContent)

\* rollbackChange lines 198-206: the early returns
rollbackChangeFails(cl, d, changeId) ==
    LET s == findChangeSession(cl, changeId) IN
    \/ s = 0
    \/ ~Truthy(findChange(cl, s, changeId).beforeContent)
    \/ ~IsSome(d[findChange(cl, s, changeId).filePath])

\* variant of rollbackChangeRemove that drops the owning session with all its changes
rollbackChangeRemoveSession(cl, changeId) ==
    LET s == findChangeSession(cl, changeId)
    IN  Collect([cl EXCEPT !.storage = Filter(@, [i \in 1..Len(@) |-> @[i] # s])])

\* rollbackChange lines 211-215: remove the change, then remove empty sessions
rollbackChangeRemove(cl, changeId) ==
    LET s == findChangeSession(cl, changeId)
        cut == [cl EXCEPT !.heap[s].changes =
                    Filter(@, [i \in 1..Len(@) |-> @[i].id # changeId])]
    IN  Collect([cut EXCEPT !.storage =
                    Filter(@, [i \in 1..Len(@) |-> Len(cut.heap[@[i]].changes) > 0])])

\* rollbackChange(changeId) on the vault d: [returns, docs, changelog]
rollbackChange(cl, d, changeId) ==
    IF rollbackChangeFails(cl, d, changeId)
    THEN [returns |-> FALSE, docs |-> d, changelog |-> cl]
    ELSE LET target == findChange(cl, findChangeSession(cl, changeId), changeId)
         IN  [returns |-> TRUE,
              docs |-> [d EXCEPT ![target.filePath] = Some(target.beforeContent[1])],
              changelog |-> rollbackChangeRemove(cl, changeId)]

\* variant of rollbackSessionRestore that counts a change whose document is missing
rollbackSessionRestoreCountsMissing(d, changes) ==
    LET todo == Reverse(changes)
        F[i \in 0..Len(todo)] ==
            IF i = 0 THEN [docs |-> d, rolledBack |-> 0]
            ELSE LET change == todo[i]
                     acc == F[i-1]
                 IN  IF Truthy(change.beforeContent)
                     THEN [docs |-> IF IsSome(acc.docs[change.filePath])
                                    THEN [acc.docs EXCEPT ![change.filePath] =
                                              Some(change.beforeContent[1])]
                                    ELSE acc.docs,
                           rolledBack |-> acc.rolledBack + 1]
                     ELSE acc
    IN F[Len(todo)]

\* rollbackSession lines 236-244: the restores of [...changes].reverse(), in order
\* result: [docs, rolledBack]
rollbackSessionRestore(d, changes) ==
    LET todo == Reverse(changes)
        F[i \in 0..Len(todo)] ==
            IF i = 0 THEN [docs |-> d, rolledBack |-> 0]
            ELSE LET change == todo[i]
                     acc == F[i-1]
                 IN  IF Truthy(change.beforeContent) /\ IsSome(acc.docs[change.filePath])
                     THEN [docs |-> [acc.docs EXCEPT ![change.filePath] =
                                         Some(change.beforeContent[1])],
                           rolledBack |-> acc.rolledBack + 1]
                     ELSE acc
    IN F[Len(todo)]

\* rollbackSession line 247
rollbackSessionRemove(cl, sessionId) ==
    Collect([cl EXCEPT !.storage =
                Filter(@, [i \in 1..Len(@) |-> cl.heap[@[i]].sessionId # sessionId])])

(***************************************************************************)
(* Specification Spec: the service driven by any sequence of calls, each   *)
(* call running to completion, with the vault changing in between.         *)
(***************************************************************************)
NoCall == [op |-> "none", value |-> 0]

\* the patch engine is not exercised
NoPatch == [fn |-> "none", links |-> <<>>, tags |-> <<>>, out |-> <<>>]

FlowIds == 1..MaxFlows

\* a command that has not been invoked.  attempted and failed are history: the
\* files processEntireVault has called processFile with, and those for which
\* the call rejected
IdleFlow ==
    [kind |-> "none", pc |-> "idle", file |-> "", queue |-> <<>>,
     active |-> "", originalContent |-> <<>>, modifiedContent |-> <<>>,
     changeId |-> 0, modified |-> FALSE, saveContent |-> <<>>, result |-> None,
     totalFiles |-> 0, processed |-> 0, modifiedCount |-> 0, errors |-> 0,
     attempted |-> <<>>, failed |-> {}]

\* no command is running
NoCommands ==
    /\ flows = [f \in FlowIds |-> IdleFlow]
    /\ processingFiles = {}
    /\ writes = {}

Init ==
    /\ docs \in [Paths -> {Some(c) : c \in SvcContents}]
    /\ changelog = NewChangelog
    /\ patch = NoPatch
    /\ NoCommands
    /\ persisted = <<>>
    /\ ret = NoCall

StartSession ==
    /\ changelog.nextId <= MaxIds
    /\ changelog' = startSession(changelog)
    /\ ret' = NoCall
    /\ UNCHANGED <<docs, persisted, others>>

EndSession ==
    /\ changelog.currentSession # 0
    /\ changelog' = endSessionClear(endSessionPush(changelog))
    /\ persisted' = IF endSessionSaves(changelog)
                    THEN saveChangelog(endSessionPush(changelog)) ELSE persisted
    /\ ret' = NoCall
    /\ UNCHANGED <<docs, others>>

\* recordBefore as its callers use it (main.ts 249, 715): content is the document as read
RecordBefore ==
    /\ changelog.nextId <= MaxIds
    /\ changelog.currentSession # 0
    /\ \E p \in Paths :
          /\ IsSome(docs[p])
          /\ changelog' = recordBefore(changelog, p, docs[p][1])
    /\ ret' = NoCall
    /\ UNCHANGED <<docs, persisted, others>>

\* recordAfter as its callers use it (main.ts 276-292, 719-731): once for a pending
\* entry, after the document was written with a content that differs from the one
\* recorded; afterContent is the content written
RecordAfter ==
    /\ changelog.currentSession # 0
    /\ \E k \in 1..Len(changelog.heap[changelog.currentSession].changes) :
          LET change == changelog.heap[changelog.currentSession].changes[k] IN
          /\ IsSome(docs[change.filePath])
          /\ docs[change.filePath] # change.beforeContent
          /\ change.description = "Pending..."
          /\ changelog' = recordAfter(changelog, change.id, docs[change.filePath][1],
                                      "link_added", "done")
          /\ changelog' # changelog
    /\ ret' = NoCall
    /\ UNCHANGED <<docs, persisted, others>>

RecordChange ==
    /\ changelog.nextId <= MaxIds
    /\ changelog.currentSession # 0
    /\ \E p \in Paths :
          changelog' = recordChange(changelog, p, "file_renamed", "done", None, None)
    /\ ret' = NoCall
    /\ UNCHANGED <<docs, persisted, others>>

\* the caller's patch (vault.modify between recordBefore and recordAfter)
WriteDoc ==
    /\ \E p \in Paths, c \in SvcContents :
          /\ IsSome(docs[p])
          /\ docs[p] # Some(c)
          /\ docs' = [docs EXCEPT ![p] = Some(c)]
    /\ ret' = NoCall
    /\ UNCHANGED <<changelog, persisted, others>>

\* a document deleted externally
DeleteDoc ==
    /\ \E p \in Paths :
          /\ IsSome(docs[p])
          /\ docs' = [docs EXCEPT ![p] = None]
    /\ ret' = NoCall
    /\ UNCHANGED <<changelog, persisted, others>>

RollbackChange(changeId) ==
    /\ UNCHANGED others
    /\ \E done \in {rollbackChange(changelog, docs, changeId)} :
          /\ docs' = done.docs
          /\ changelog' = done.changelog
          /\ persisted' = IF done.returns THEN saveChangelog(done.changelog) ELSE persisted
          /\ ret' = [op |-> "rollbackChange", value |-> done.returns]

RollbackSession(sessionId) ==
    /\ UNCHANGED others
    /\ LET k == getSession(changelog, sessionId) IN
       IF k = 0
       THEN /\ ret' = [op |-> "rollbackSession", value |-> 0]
            /\ UNCHANGED <<docs, changelog, persisted>>
       ELSE LET session == changelog.heap[changelog.storage[k]]
                done == rollbackSessionRestore(docs, session.changes)
            IN
            /\ docs' = done.docs
            /\ changelog' = rollbackSessionRemove(changelog, sessionId)
            /\ persisted' = saveChangelog(rollbackSessionRemove(changelog, sessionId))
            /\ ret' = [op |-> "rollbackSession", value |-> done.rolledBack]

\* identifiers a caller can pass: the ones handed out so far, and 0 for any other string
CallerIds == 0..(changelog.nextId - 1)

Next ==
    \/ StartSession
    \/ EndSession
    \/ RecordBefore
    \/ RecordAfter
    \/ RecordChange
    \/ WriteDoc
    \/ DeleteDoc
    \/ \E changeId \in CallerIds : RollbackChange(changeId)
    \/ \E sessionId \in CallerIds : RollbackSession(sessionId)

Spec == Init /\ [][Next]_vars

(***************************************************************************)
(* Properties of the change log, checked under Spec                        *)
(***************************************************************************)
\* storage.sessions by value, as a reader of the service sees it
MemSessions == saveChangelog(changelog)

\* positions <<i, k>> of the change entries with identifier id in a session list
EntriesOf(list, id) ==
    {ik \in {<<i, k>> : i \in 1..Len(list), k \in 1..MaxIds} :
        /\ ik[2] <= Len(list[ik[1]].changes)
        /\ list[ik[1]].changes[ik[2]].id = id}

RemoveAt(seq, k) == [i \in 1..(Len(seq) - 1) |-> IF i < k THEN seq[i] ELSE seq[i + 1]]

\* the scenario of the round trip: the entry was recorded by recordBefore with the
\* document's content D, completed by recordAfter, its session ended, and the
\* document now holds the patched content D' # D
RoundTripCase(id) ==
    \E ik \in EntriesOf(persisted, id) :
       LET c == persisted[ik[1]].changes[ik[2]] IN
       /\ IsSome(c.beforeContent)
       /\ c.description = "done"
       /\ IsSome(c.afterContent)
       /\ c.afterContent # c.beforeContent
       /\ docs[c.filePath] = c.afterContent

RoundTripRestored(id) ==
    \A ik \in EntriesOf(persisted, id) :
       LET c == persisted[ik[1]].changes[ik[2]] IN
       /\ ret'.value = TRUE
       /\ docs'[c.filePath] = c.beforeContent

\* C1: rollback round trip.  For every document content D, the empty one included:
\* after startSession, recordBefore(path, D), a patch writing D' # D, recordAfter
\* and endSession, rollbackChange(id) returns true and the document holds D again.
C1_RollbackRoundTrip ==
    [][ret'.op = "rollbackChange" =>
          \A id \in CallerIds :
             (RoundTripCase(id) /\ RollbackChange(id)) => RoundTripRestored(id)]_svcVars

\* C2: session atomicity.  No session of the in-memory session list and no session
\* of the persisted changelog has zero changes.
C2_NoEmptySession ==
    /\ \A i \in 1..Len(MemSessions) : Len(MemSessions[i].changes) > 0
    /\ \A i \in 1..Len(persisted) : Len(persisted[i].changes) > 0

\* C2 witness: an empty session was ended (nothing of it is stored) after a
\* rollback had emptied and removed the only stored session
C2_Witness ==
    /\ ret.op = "none"
    /\ changelog.nextId > 3
    /\ changelog.currentSession = 0
    /\ persisted = <<>>
    /\ MemSessions = <<>>

\* the earliest change entry of a session that targets document p (0 when none)
EarliestFor(changes, p) == Find([i \in 1..Len(changes) |-> changes[i].filePath = p])

\* C5: rollbackSession restores in reverse order of recording, so a document that
\* the session changed several times ends with the beforeContent of the earliest of
\* the session's changes to it.
C5_SessionRestoresEarliest ==
    [][ret'.op = "rollbackSession" =>
       \A sid \in CallerIds :
          (getSession(changelog, sid) # 0 /\ RollbackSession(sid)) =>
             LET changes == MemSessions[getSession(changelog, sid)].changes IN
             \A p \in Paths :
                (/\ Cardinality({k \in 1..Len(changes) : changes[k].filePath = p}) >= 2
                 /\ IsSome(changes[EarliestFor(changes, p)].beforeContent)
                 /\ IsSome(docs[p]))
                => docs'[p] = changes[EarliestFor(changes, p)].beforeContent]_svcVars

\* the change entries of a session that rollbackSession can restore: the target
\* document exists and a non-empty beforeContent was recorded
Restorable(changes) ==
    {k \in 1..Len(changes) :
        Truthy(changes[k].beforeContent) /\ IsSome(docs[changes[k].filePath])}

HasSession(list, sid) == \E i \in 1..Len(list) : list[i].sessionId = sid

WithoutEntry(list, i, k) ==
    IF Len(list[i].changes) = 1
    THEN RemoveAt(list, i)
    ELSE [list EXCEPT ![i].changes = RemoveAt(@, k)]

UnknownChange(id) == EntriesOf(persisted, id) = {}

NoBeforeContent(id) ==
    \E ik \in EntriesOf(persisted, id) :
       ~IsSome(persisted[ik[1]].changes[ik[2]].beforeContent)

TargetMissing(id) ==
    \E ik \in EntriesOf(persisted, id) :
       ~IsSome(docs[persisted[ik[1]].changes[ik[2]].filePath])

\* C8: rollbackChange(id) returns false when id is in no persisted session, when
\* the change has no beforeContent, or when the target document is missing, and in
\* each case the documents, the in-memory sessions and the persisted changelog are
\* left unchanged.
C8_RollbackChangeFailure ==
    [][ret'.op = "rollbackChange" =>
       \A id \in CallerIds :
          (/\ UnknownChange(id) \/ NoBeforeContent(id) \/ TargetMissing(id)
           /\ RollbackChange(id))
          => /\ ret'.value = FALSE
             /\ UNCHANGED <<docs, changelog, persisted>>]_svcVars

\* C8 witness: a rollbackChange has failed while every stored change either has no
\* beforeContent or targets a missing document, both kinds being present
C8_Witness ==
    /\ ret.op = "rollbackChange"
    /\ ret.value = FALSE
    /\ \E id \in CallerIds : NoBeforeContent(id)
    /\ \E id \in CallerIds : TargetMissing(id) /\ ~NoBeforeContent(id)
    /\ \A id \in CallerIds : UnknownChange(id) \/ NoBeforeContent(id) \/ TargetMissing(id)

(***************************************************************************)
(* Text helpers: JavaScript string methods on sequences of characters.     *)
(* Offsets are 0-based as in the source.                                   *)
(***************************************************************************)
\* const x = e: Only({body : x \in {e}}) is body with e computed once and named x
Only(S) == CHOOSE v \in S : TRUE

\* the elements of an array
Range(seq) == {seq[i] : i \in 1..Len(seq)}

\* the k-th smallest element of a set of numbers
Nth(S, k) == CHOOSE x \in S : Cardinality({y \in S : y < x}) = k - 1

UpperCase == <<"A", "B", "C", "D", "E", "F", "G", "H", "I", "J", "K", "L", "M",
               "N", "O", "P", "Q", "R", "S", "T", "U", "V", "W", "X", "Y", "Z">>

LowerCase == <<"a", "b", "c", "d", "e", "f", "g", "h", "i", "j", "k", "l", "m",
               "n", "o", "p", "q", "r", "s", "t", "u", "v", "w", "x", "y", "z">>

Digits == {"0", "1", "2", "3", "4", "5", "6", "7", "8", "9"}

\* the lower-case letter of every upper-case letter
LowerOf == [c \in {UpperCase[i] : i \in 1..26} |->
              LowerCase[CHOOSE i \in 1..26 : UpperCase[i] = c]]

toLowerChar(c) == IF c \in DOMAIN LowerOf THEN LowerOf[c] ELSE c

\* String.prototype.toLowerCase
toLowerCase(str) == [i \in 1..Len(str) |-> toLowerChar(str[i])]

\* str.slice(from, to) with 0 <= from <= to <= length
Slice(str, from, to) == SubSeq(str, from + 1, to)

\* whether sub occurs in str at offset at
OccursAt(str, sub, at) ==
    /\ at >= 0
    /\ at + Len(sub) <= Len(str)
    /\ \A j \in 1..Len(sub) : str[at + j] = sub[j]

\* String.prototype.indexOf: the first offset, -1 when there is none
indexOf(str, sub) ==
    LET hits == {at \in 0..(Len(str) - Len(sub)) : OccursAt(str, sub, at)}
    IN  IF hits = {} THEN -1 ELSE CHOOSE at \in hits : \A b \in hits : at <= b

\* String.prototype.includes
includes(str, sub) == indexOf(str, sub) >= 0

\* Array.prototype.join
Join(parts, sep) ==
    LET F[i \in 0..Len(parts)] ==
            IF i = 0 THEN <<>>
            ELSE IF i = 1 THEN parts[1]
            ELSE F[i-1] \o sep \o parts[i]
    IN F[Len(parts)]

(***************************************************************************)
(* VaultOperations.applyLinks (src/src/services/changelog-service.ts)      *)
(* A link suggestion is [targetText, linkTarget, confidence].              *)
(***************************************************************************)
\* lines 412-413: result.toLowerCase().indexOf(targetText.toLowerCase())
lowerIndexOf(str, text) ==
    Only({indexOf(lowStr, lowText) :
             lowStr \in {toLowerCase(str)}, lowText \in {toLowerCase(text)}})

\* new RegExp(escapeRegex(text), 'gi').exec(str): escapeRegex makes every character
\* of text a literal, the i flag folds case; offset of the first match, -1 when none
escapeRegexExec(str, text) ==
    Only({indexOf(lowStr, lowText) :
             lowStr \in {toLowerCase(str)}, lowText \in {toLowerCase(text)}})

\* alreadyLinkedRegex.test(str) for \[\[[^\]]*TEXT[^\]]*\]\] with the i flag:
\* "[[" at o, TEXT at t, "]]" at c, and no "]" between "[[" and TEXT nor TEXT and "]]"
alreadyLinkedRegexTest(str, text) ==
    \E lowStr \in {toLowerCase(str)}, lowText \in {toLowerCase(text)} :
        \E o \in 0..Len(str) :
           /\ OccursAt(str, <<"[", "[">>, o)
           /\ \E t \in (o + 2)..Len(str) :
                  /\ \A j \in (o + 3)..t : str[j] # "]"
                  /\ OccursAt(lowStr, lowText, t)
                  /\ \E c \in (t + Len(text))..Len(str) :
                         /\ \A j \in (t + Len(text) + 1)..c : str[j] # "]"
                         /\ OccursAt(str, <<"]", "]">>, c)

\* the place of links[i] after the sort: one more than the number of links that
\* the comparator posB - posA of a stable sort puts before it
linkRank(pos, i) ==
    1 + Cardinality({j \in DOMAIN pos : pos[j] > pos[i] \/ (pos[j] = pos[i] /\ j < i)})

\* lines 411-415: [...links].sort((a, b) => posB - posA), a stable sort by
\* descending offset of the first case-insensitive occurrence in the content
sortedLinks(content, links) ==
    Only({[r \in 1..Len(links) |-> links[CHOOSE i \in 1..Len(links) : linkRank(pos, i) = r]] :
             pos \in {[i \in 1..Len(links) |-> lowerIndexOf(content, links[i].targetText)]}})

\* lines 445-453: the match at offset at becomes a wiki-link
linkAt(result, link, at) ==
    Only({Slice(result, 0, at)
             \o <<"[", "[">>
             \o (IF toLowerCase(matched) # toLowerCase(link.linkTarget)
                 THEN link.linkTarget \o <<"|">> \o matched
                 ELSE link.linkTarget)
             \o <<"]", "]">>
             \o Slice(result, at + Len(matched), Len(result)) :
          matched \in {Slice(result, at, at + Len(link.targetText))}})

\* line 425: the target note is already linked somewhere in the document
targetLinked(result, linkTarget) ==
    \E closed \in {<<"[", "[">> \o linkTarget \o <<"]", "]">>},
       piped \in {<<"[", "[">> \o linkTarget \o <<"|">>} :
        includes(result, closed) \/ includes(result, piped)

\* lines 424-457: the body of the loop for one link
applyOneLink(result, link) ==
    IF targetLinked(result, link.linkTarget)
    THEN result
    ELSE IF alreadyLinkedRegexTest(result, link.targetText)
    THEN result
    ELSE Only({IF at < 0 THEN result ELSE linkAt(result, link, at) :
                  at \in {escapeRegexExec(result, link.targetText)}})

\* lines 417-458: the loop over the sorted links
applySorted(content, sorted) ==
    LET F[i \in 0..Len(sorted)] ==
            IF i = 0 THEN content
            ELSE Only({applyOneLink(result, sorted[i]) : result \in {F[i-1]}})
    IN F[Len(sorted)]

applyLinks(content, links) ==
    Only({applySorted(content, sorted) : sorted \in {sortedLinks(content, links)}})

(***************************************************************************)
(* VaultOperations.applyTags and its helpers                               *)
(* A tag suggestion is [tag, location, confidence].                        *)
(***************************************************************************)
\* \s of the regular expressions, and the characters trim() / trimEnd() strip
isSpace(c) == c \in {" ", "\n", "\t"}

\* [a-zA-Z]
isLetter(c) == c \in DOMAIN LowerOf \/ c \in Range(LowerCase)

\* [a-zA-Z0-9_/-]
isTagChar(c) == isLetter(c) \/ c \in Digits \/ c \in {"_", "/", "-"}

\* String.prototype.trimEnd
trimEnd(str) ==
    SubSeq(str, 1, CHOOSE n \in 0..Len(str) :
                      /\ n = 0 \/ ~isSpace(str[n])
                      /\ \A k \in (n + 1)..Len(str) : isSpace(str[k]))

\* String.prototype.trim
trim(str) ==
    Only({SubSeq(e, 1 + (CHOOSE n \in 0..Len(e) :
                            /\ n = Len(e) \/ ~isSpace(e[n + 1])
                            /\ \A j \in 1..n : isSpace(e[j])),
                 Len(e)) :
          e \in {trimEnd(str)}})

\* offset of the end of the line that holds offset at (the next "\n" or the end)
lineEnd(str, at) ==
    CHOOSE e \in at..Len(str) :
       /\ e = Len(str) \/ str[e + 1] = "\n"
       /\ \A j \in (at + 1)..e : str[j] # "\n"

\* String.prototype.split(','): the pieces between the commas
splitComma(str) ==
    Only({[k \in 1..(Cardinality(cuts) - 1) |->
              SubSeq(str, Nth(cuts, k) + 1, Nth(cuts, k + 1) - 1)] :
          cuts \in {{0, Len(str) + 1} \cup {i \in 1..Len(str) : str[i] = ","}}})

\* lines 585-589: value.slice(1, -1).split(',').map(t => t.trim()).filter(...)
parseTagArray(value) ==
    Only({Filter(trimmed, [i \in 1..Len(trimmed) |-> Len(trimmed[i]) > 0]) :
          trimmed \in {[i \in 1..Len(parts) |-> trim(parts[i])] :
                          parts \in {splitComma(inner) :
                                        inner \in {SubSeq(value, 2, Len(value) - 1)}}}})

\* parseFrontmatterTags(value)
parseFrontmatterTags(value) ==
    IF Len(value) > 0 /\ value[1] = "["
    THEN parseTagArray(value)
    ELSE Only({IF Len(t) > 0 THEN <<t>> ELSE <<>> : t \in {trim(value)}})

FmOpen == <<"-", "-", "-", "\n">>

FmClose == <<"\n", "-", "-", "-">>

\* content.match(/^---\n([\s\S]*?)\n---/): [found, body (group 1), end (offset after the match)]
frontmatterMatch(content) ==
    IF /\ OccursAt(content, FmOpen, 0)
       /\ \E e \in 4..Len(content) : OccursAt(content, FmClose, e)
    THEN Only({[found |-> TRUE, body |-> Slice(content, 4, e), end |-> e + 4] :
               e \in {CHOOSE x \in 4..Len(content) :
                         /\ OccursAt(content, FmClose, x)
                         /\ \A y \in 4..(x - 1) : ~OccursAt(content, FmClose, y)}})
    ELSE [found |-> FALSE, body |-> <<>>, end |-> 0]

TagsKey == <<"t", "a", "g", "s", ":">>

\* offsets in fm where the m flag lets ^tags: match
tagsLineStarts(fm) ==
    {ls \in 0..Len(fm) : (ls = 0 \/ fm[ls] = "\n") /\ OccursAt(fm, TagsKey, ls)}

\* group 1 of the tags line expression for the line that starts at ls: \s* is
\* greedy and runs over line ends; both alternatives of the group then take
\* the rest of the line
tagsLineValue(fm, ls) ==
    Only({Slice(fm, p, lineEnd(fm, p)) :
          p \in {CHOOSE q \in (ls + 5)..Len(fm) :
                    /\ \A j \in (ls + 6)..q : isSpace(fm[j])
                    /\ q = Len(fm) \/ ~isSpace(fm[q + 1])}})

\* fm.match(/^tags:\s*(\[.*?\]|.*?)$/m): [found, start (offset of the match), value (group 1)]
tagsLineMatch(fm) ==
    Only({IF starts = {}
          THEN [found |-> FALSE, start |-> 0, value |-> <<>>]
          ELSE [found |-> TRUE, start |-> Nth(starts, 1),
                value |-> tagsLineValue(fm, Nth(starts, 1))] :
          starts \in {tagsLineStarts(fm)}})

\* end of the run of [a-zA-Z0-9_/-] that starts after the # at position h
tagRunEnd(content, h) ==
    CHOOSE e \in (h + 1)..Len(content) :
       /\ \A j \in (h + 1)..e : isTagChar(content[j])
       /\ e = Len(content) \/ ~isTagChar(content[e + 1])

\* the inline tags: /(?:^|[\s])#([a-zA-Z][a-zA-Z0-9_/-]*)/g, group 1 of every match
inlineTags(content) ==
    {SubSeq(content, h + 1, tagRunEnd(content, h)) :
        h \in {h \in 1..Len(content) :
                  /\ content[h] = "#"
                  /\ h = 1 \/ isSpace(content[h - 1])
                  /\ h < Len(content) /\ isLetter(content[h + 1])}}

\* lines 526-530: the tags of the tags line of a frontmatter block
frontmatterTagsIn(body) ==
    UNION {IF line.found
           THEN UNION {Range(parsed) : parsed \in {parseFrontmatterTags(line.value)}}
           ELSE {} :
           line \in {tagsLineMatch(body)}}

\* extractExistingTags(content), as the set of tags found (the caller only asks
\* whether some element equals a name)
extractExistingTags(content) ==
    UNION {(IF fm.found THEN frontmatterTagsIn(fm.body) ELSE {}) \cup inlineTags(content) :
           fm \in {frontmatterMatch(content)}}

\* "tags: [" + tags.join(', ') + "]"
tagsLine(tags) == TagsKey \o <<" ", "[">> \o Join(tags, <<",", " ">>) \o <<"]">>

\* lines 557-562: the existing tags followed by the new ones that are not among them
mergeTags(existingTags, tags) ==
    Only({existingTags \o Filter(tags, [i \in 1..Len(tags) |->
                                          toLowerCase(tags[i]) \notin existingLower]) :
          existingLower \in {{toLowerCase(t) : t \in Range(existingTags)}}})

\* lines 552-569: the frontmatter block with the tags added
frontmatterWithTags(frontmatter, tags) ==
    Only({IF line.found
          THEN Only({Slice(frontmatter, 0, line.start)
                        \o tagsLine(allTags)
                        \o Slice(frontmatter, lineEnd(frontmatter, line.start), Len(frontmatter)) :
                     allTags \in {mergeTags(existingTags, tags) :
                                     existingTags \in {parseFrontmatterTags(line.value)}}})
          ELSE frontmatter \o <<"\n">> \o tagsLine(tags) :
          line \in {tagsLineMatch(frontmatter)}})

\* addFrontmatterTags(content, tags)
addFrontmatterTags(content, tags) ==
    Only({IF fm.found
          THEN Only({FmOpen \o frontmatter \o FmClose \o Slice(content, fm.end, Len(content)) :
                     frontmatter \in {frontmatterWithTags(fm.body, tags)}})
          ELSE FmOpen \o tagsLine(tags) \o FmClose \o <<"\n", "\n">> \o content :
          fm \in {frontmatterMatch(content)}})

\* line 479: the tag name without one leading #
tagName(tag) == IF Len(tag) > 0 /\ tag[1] = "#" THEN Tail(tag) ELSE tag

\* lines 484-488: which suggestions survive the "tag already exists" test
tagsToAdd(content, tags) ==
    Only({[i \in 1..Len(tags) |->
              \E name \in {toLowerCase(tagName(tags[i].tag))} : name \notin existingLower] :
          existingLower \in {{toLowerCase(t) : t \in extractExistingTags(content)}}})

\* lines 490-494: the names pushed to frontmatterTags
frontmatterTagsOf(kept) ==
    Only({[i \in 1..Len(front) |-> tagName(front[i].tag)] :
          front \in {Filter(kept, [i \in 1..Len(kept) |-> kept[i].location = "frontmatter"])}})

\* lines 490-494: the strings pushed to inlineTags
inlineTagsOf(kept) ==
    Only({[i \in 1..Len(inline) |-> <<"#">> \o tagName(inline[i].tag)] :
          inline \in {Filter(kept, [i \in 1..Len(kept) |-> kept[i].location # "frontmatter"])}})

\* lines 499-503
withFrontmatterTags(content, frontmatterTags) ==
    IF Len(frontmatterTags) > 0 THEN addFrontmatterTags(content, frontmatterTags) ELSE content

\* lines 505-510
withInlineTags(result, inlineTagList) ==
    IF Len(inlineTagList) > 0
    THEN trimEnd(result) \o <<"\n", "\n">> \o Join(inlineTagList, <<" ">>)
    ELSE result

\* lines 497-513 for the suggestions that passed the "already exists" test
applyKeptTags(content, kept) ==
    Only({withInlineTags(result, inlineTagList) :
          result \in {withFrontmatterTags(content, frontmatterTags) :
                         frontmatterTags \in {frontmatterTagsOf(kept)}},
          inlineTagList \in {inlineTagsOf(kept)}})

applyTags(content, tags) ==
    Only({applyKeptTags(content, kept) :
          kept \in {Filter(tags, keep) : keep \in {tagsToAdd(content, tags)}}})

(***************************************************************************)
(* The patch engine on its own: the inputs are drawn at the start, every   *)
(* step applies the function to the result of the step before.             *)
(***************************************************************************)
MaxPasses == 2

MaxTextLen == 3

MaxLinks == 2

MaxBodyLen == 2

MaxTags == 2

SeqsUpTo(S, n) == UNION {[1..k -> S] : k \in 0..n}

Last(seq) == seq[Len(seq)]

\* the change log service is built and idle while the patch engine is exercised
IdleService ==
    /\ docs = [p \in Paths |-> Some(<<>>)]
    /\ changelog = NewChangelog
    /\ persisted = <<>>
    /\ ret = NoCall
    /\ NoCommands

LinkChars == {"a", "b", "["}

LinkContents == SeqsUpTo(LinkChars, MaxTextLen)

LinkSuggestions ==
    [targetText : {<<>>, <<"a">>, <<"b">>, <<"[">>},
     linkTarget : {<<"A">>, <<"B">>},
     confidence : {90}]

InitLinks ==
    /\ IdleService
    /\ \E content \in LinkContents, links \in SeqsUpTo(LinkSuggestions, MaxLinks) :
          patch = [fn |-> "applyLinks", links |-> links, tags |-> <<>>, out |-> <<content>>]

ApplyLinks ==
    /\ patch.fn = "applyLinks"
    /\ Len(patch.out) <= MaxPasses
    /\ \E content \in {Last(patch.out)} :
          patch' = [patch EXCEPT !.out = Append(@, applyLinks(content, patch.links))]
    /\ UNCHANGED <<svcVars, orchVars>>

NextLinks == ApplyLinks

SpecLinks == InitLinks /\ [][NextLinks]_vars

TagHeaders ==
    { <<>>,
      <<"-", "-", "-", "\n", "t", "a", "g", "s", ":", " ", "[", "a", "]", "\n", "-", "-", "-", "\n">>,
      <<"-", "-", "-", "\n", "t", "a", "g", "s", ":", " ", "a", "\n", "-", "-", "-", "\n">>,
      <<"-", "-", "-", "\n", "k", ":", " ", "v", "\n", "-", "-", "-", "\n">> }

TagChars == {"a", "#", "1", "\n"}

TagContents == {h \o b : h \in TagHeaders, b \in SeqsUpTo(TagChars, MaxBodyLen)}

TagSuggestions ==
    [tag : {<<"a">>, <<"#", "a">>, <<"A">>, <<"b">>, <<"1", "a">>},
     location : {"frontmatter", "inline"},
     confidence : {90}]

InitTags ==
    /\ IdleService
    /\ \E content \in TagContents, tags \in SeqsUpTo(TagSuggestions, MaxTags) :
          patch = [fn |-> "applyTags", links |-> <<>>, tags |-> tags, out |-> <<content>>]

ApplyTags ==
    /\ patch.fn = "applyTags"
    /\ Len(patch.out) <= MaxPasses
    /\ \E content \in {Last(patch.out)} :
          patch' = [patch EXCEPT !.out = Append(@, applyTags(content, patch.tags))]
    /\ UNCHANGED <<svcVars, orchVars>>

NextTags == ApplyTags

SpecTags == InitTags /\ [][NextTags]_vars

\* C3: applyLinks is idempotent: applying the same suggestion list to the
\* result of applyLinks gives that result again, for every content and list.
C3_ApplyLinksIdempotent ==
    (patch.fn = "applyLinks" /\ Len(patch.out) >= 3) => patch.out[3] = patch.out[2]

\* C4: applyTags is idempotent: applying the same tag suggestion list (header
\* and inline locations, names with or without the leading #) to the result of
\* applyTags gives that result again, for every content and list.
C4_ApplyTagsIdempotent ==
    (patch.fn = "applyTags" /\ Len(patch.out) >= 3) => patch.out[3] = patch.out[2]

(***************************************************************************)
(* The orchestrator (main.ts).  A command runs from one await to the next  *)
(* in one step; its position between steps is flows[f].pc:                 *)
(*   "read"     awaiting vault.read(file)                                  *)
(*   "analyze"  awaiting claudeService.analyzeNote (and trackTokenUsage)   *)
(*   "modify"   awaiting vault.modify(file, modifiedContent)               *)
(*   "saving"   inside endSession(), awaiting saveChangelog(); the content *)
(*              it writes is flows[f].saveContent                          *)
(*   "delay"    awaiting delay(500) between two files of the vault run     *)
(* An await that resumes without touching shared state afterwards is run   *)
(* together with the step before it.                                       *)
(***************************************************************************)
\* the settings of a configured installation: DEFAULT_SETTINGS with an API key
\* entered, auto-processing switched on and the blacklist word "x"; confidences
\* in hundredths
settings ==
    [apiKey |-> TRUE, autoProcessOnSave |-> TRUE,
     enableAutoLinking |-> TRUE, enableAutoTagging |-> TRUE,
     linkConfidenceThreshold |-> 70, tagConfidenceThreshold |-> 70,
     preferredTagLocation |-> "frontmatter",
     blacklistWords |-> <<<<"x">>>>]

\* the notes of the vault in the order of vault.getMarkdownFiles(); no path
\* starts with "."
Files == <<"a.md", "b.md">>

\* vault.getMarkdownFiles() in vault d: the notes that exist
getMarkdownFiles(d) == Filter(Files, [i \in 1..Len(Files) |-> IsSome(d[Files[i]])])

\* TFile.basename
basename(path) == IF path = "a.md" THEN <<"a">> ELSE <<"b">>

\* what every note holds when the commands start
OrchContent == <<"a">>

\* what analyzeNote may resolve to (error: it rejects)
OracleResults ==
    { [error |-> FALSE,
       suggestedLinks |-> <<[targetText |-> <<"a">>, linkTarget |-> <<"b">>, confidence |-> 90]>>,
       suggestedTags |-> <<>>],
      [error |-> FALSE,
       suggestedLinks |-> <<[targetText |-> <<"a">>, linkTarget |-> <<"c">>, confidence |-> 90]>>,
       suggestedTags |-> <<>>],
      [error |-> FALSE,
       suggestedLinks |-> <<>>,
       suggestedTags |-> <<[tag |-> <<"x">>, location |-> "inline", confidence |-> 90]>>],
      [error |-> FALSE,
       suggestedLinks |-> <<[targetText |-> <<"a">>, linkTarget |-> <<"b">>, confidence |-> 50]>>,
       suggestedTags |-> <<>>],
      [error |-> TRUE, suggestedLinks |-> <<>>, suggestedTags |-> <<>>] }

\* main.ts 195-197 / 546-548
linksToApply(result) ==
    IF settings.enableAutoLinking
    THEN Filter(result.suggestedLinks,
                [i \in 1..Len(result.suggestedLinks) |->
                    result.suggestedLinks[i].confidence >= settings.linkConfidenceThreshold])
    ELSE <<>>

\* main.ts 198-206 / 549-557
tagsWithLocation(result) ==
    LET tagsToApply ==
            IF settings.enableAutoTagging
            THEN Filter(result.suggestedTags,
                        [i \in 1..Len(result.suggestedTags) |->
                            result.suggestedTags[i].confidence >= settings.tagConfidenceThreshold])
            ELSE <<>>
    IN  [i \in 1..Len(tagsToApply) |->
            [tagsToApply[i] EXCEPT !.location = settings.preferredTagLocation]]

\* applyChanges 251-264: <<contentAfterLinks, contentAfterTags>>
patched(originalContent, links, tags) ==
    Only({<<contentAfterLinks,
            IF Len(tags) > 0 THEN applyTags(contentAfterLinks, tags) ELSE contentAfterLinks>> :
          contentAfterLinks \in {IF Len(links) > 0
                                 THEN applyLinks(originalContent, links)
                                 ELSE originalContent}})

\* applyChanges up to "if (modifiedContent !== originalContent)"
applyChangesStart(cl, file, originalContent, links, tags) ==
    Only({[changelog |-> recordBefore(opened, file, originalContent),
           changeId |-> generateId(opened),
           modifiedContent |-> content[2],
           linksApplied |-> IF content[1] # originalContent THEN Len(links) ELSE 0,
           tagsApplied |-> IF content[2] # content[1] THEN Len(tags) ELSE 0] :
          opened \in {startSession(cl)},
          content \in {patched(originalContent, links, tags)}})

\* endSession() up to its await: saving tells whether it is suspended in
\* saveChangelog(), whose JSON.stringify has already taken the sessions
\* (saveContent) and whose write of the changelog file is awaited
endSessionStart(cl) ==
    IF endSessionSaves(cl)
    THEN [changelog |-> endSessionPush(cl),
          saveContent |-> saveChangelog(endSessionPush(cl)), saving |-> TRUE]
    ELSE [changelog |-> endSessionClear(endSessionPush(cl)),
          saveContent |-> <<>>, saving |-> FALSE]

\* the locals of one processFile / applyChanges call go out of scope
DropLocals(fl) ==
    [fl EXCEPT !.originalContent = <<>>, !.modifiedContent = <<>>,
               !.changeId = 0, !.modified = FALSE, !.saveContent = <<>>]

\* processEntireVault: the for loop takes the next file, or the run ends
nextFile(fl) ==
    IF fl.queue = <<>>
    THEN [DropLocals(fl) EXCEPT !.pc = "done"]
    ELSE [DropLocals(fl) EXCEPT !.pc = "read", !.file = Head(fl.queue),
                                !.queue = Tail(fl.queue),
                                !.attempted = Append(@, Head(fl.queue))]

\* processFile / applyChanges has returned to the command that called it
returned(fl, modified) ==
    IF fl.kind = "vault"
    THEN [DropLocals(fl) EXCEPT !.pc = "delay",
                                !.modifiedCount = @ + (IF modified THEN 1 ELSE 0),
                                !.processed = @ + 1]
    ELSE [DropLocals(fl) EXCEPT !.pc = "done"]

\* an await of the command has rejected: the catch block of the command
threw(fl) ==
    IF fl.kind = "vault"
    THEN nextFile([fl EXCEPT !.errors = @ + 1, !.processed = @ + 1,
                             !.failed = @ \cup {fl.file}])
    ELSE [DropLocals(fl) EXCEPT !.pc = "done"]

\* variant of released that leaves the path in the set when the read rejected
releasedAfterRead(fl, pf) ==
    IF fl.kind = "auto" /\ fl.pc # "read" THEN pf \ {fl.file} ELSE pf

\* main.ts 621-623: finally { this.processingFiles.delete(file.path) }
released(fl, pf) == IF fl.kind = "auto" THEN pf \ {fl.file} ELSE pf

\* processBacklinks: the for loop takes the next file that is not the source
\* note, or the loop is over and endSession() is called
backlinksAdvance(fl, cl) ==
    Only({IF rest # <<>>
          THEN [flow |-> [DropLocals(fl) EXCEPT !.pc = "read", !.file = Head(rest),
                                                !.queue = Tail(rest)],
                changelog |-> cl]
          ELSE Only({[flow |-> [DropLocals(fl) EXCEPT
                                   !.pc = IF ended.saving THEN "saving" ELSE "done",
                                   !.queue = <<>>,
                                   !.saveContent = ended.saveContent],
                      changelog |-> ended.changelog] :
                     ended \in {endSessionStart(cl)}}) :
          rest \in {Filter(fl.queue, [i \in 1..Len(fl.queue) |-> fl.queue[i] # fl.active])}})

\* flows are numbered in the order the commands are invoked
Invoked(f) ==
    /\ flows[f].pc = "idle"
    /\ \A g \in 1..(f - 1) : flows[g].pc # "idle"

InitOrch ==
    /\ docs = [p \in Paths |-> Some(OrchContent)]
    /\ changelog = NewChangelog
    /\ persisted = <<>>
    /\ ret = NoCall
    /\ patch = NoPatch
    /\ NoCommands

\* processCurrentNote() up to its first await
ProcessCurrentNote(f, activeFile) ==
    /\ Invoked(f)
    /\ settings.apiKey
    /\ flows' = [flows EXCEPT ![f] =
                    [IdleFlow EXCEPT !.kind = "current", !.pc = "read", !.file = activeFile]]
    /\ UNCHANGED <<svcVars, patch, processingFiles, writes>>

\* the debounced modify handler of registerAutoProcess up to its first await
AutoProcess(f, file) ==
    /\ Invoked(f)
    /\ IF \/ ~settings.autoProcessOnSave
          \/ file \in processingFiles
          \/ ~settings.apiKey
       THEN /\ flows' = [flows EXCEPT ![f] =
                            [IdleFlow EXCEPT !.kind = "auto", !.pc = "dropped", !.file = file]]
            /\ UNCHANGED processingFiles
       ELSE /\ flows' = [flows EXCEPT ![f] =
                            [IdleFlow EXCEPT !.kind = "auto", !.pc = "read", !.file = file]]
            /\ processingFiles' = processingFiles \cup {file}
    /\ UNCHANGED <<svcVars, patch, writes>>

\* processEntireVault() up to its first await
ProcessEntireVault(f) ==
    /\ Invoked(f)
    /\ settings.apiKey
    /\ \E files \in {getMarkdownFiles(docs)} :
          /\ Len(files) > 0
          /\ flows' = [flows EXCEPT ![f] =
                          [IdleFlow EXCEPT !.kind = "vault", !.pc = "read",
                                           !.file = Head(files), !.queue = Tail(files),
                                           !.totalFiles = Len(files),
                                           !.attempted = <<Head(files)>>]]
    /\ UNCHANGED <<svcVars, patch, processingFiles, writes>>

\* processBacklinks() up to its first await
ProcessBacklinks(f, activeFile) ==
    /\ Invoked(f)
    /\ \E opened \in {startSession(changelog)} :
       \E next \in {backlinksAdvance(
                       [IdleFlow EXCEPT !.kind = "backlinks", !.active = activeFile,
                                        !.queue = getMarkdownFiles(docs)],
                       opened)} :
           /\ flows' = [flows EXCEPT ![f] = next.flow]
           /\ changelog' = next.changelog
    /\ UNCHANGED <<docs, persisted, ret, patch, processingFiles, writes>>

\* vault.read(file) of processCurrentNote / processFile resolves
ReadFile(f) ==
    LET fl == flows[f] IN
    /\ fl.kind \in {"current", "auto", "vault"}
    /\ fl.pc = "read"
    /\ IF IsSome(docs[fl.file])
       THEN /\ flows' = [flows EXCEPT ![f] =
                            [fl EXCEPT !.pc = "analyze", !.originalContent = docs[fl.file][1]]]
            /\ UNCHANGED processingFiles
       ELSE /\ flows' = [flows EXCEPT ![f] = threw(fl)]
            /\ processingFiles' = released(fl, processingFiles)
    /\ UNCHANGED <<svcVars, patch, writes>>

\* analyzeNote settles; the command runs on to its next await
AnalyzeNote(f, result) ==
    /\ flows[f].kind \in {"current", "auto", "vault"}
    /\ flows[f].pc = "analyze"
    /\ \E fl \in {IF flows[f].kind = "current" /\ ~result.error
                   THEN [flows[f] EXCEPT !.result = Some(result)] ELSE flows[f]},
          links \in {linksToApply(result)}, tags \in {tagsWithLocation(result)} :
       IF result.error
       THEN /\ flows' = [flows EXCEPT ![f] = threw(fl)]
            /\ processingFiles' = released(fl, processingFiles)
            /\ UNCHANGED changelog
       ELSE IF Len(links) = 0 /\ Len(tags) = 0
       THEN /\ flows' = [flows EXCEPT ![f] = returned(fl, FALSE)]
            /\ processingFiles' = released(fl, processingFiles)
            /\ UNCHANGED changelog
       ELSE \E a \in {applyChangesStart(changelog, fl.file, fl.originalContent, links, tags)} :
            \E modified \in {a.linksApplied > 0 \/ a.tagsApplied > 0} :
            IF a.modifiedContent # fl.originalContent
            THEN /\ flows' = [flows EXCEPT ![f] =
                                [fl EXCEPT !.pc = "modify",
                                           !.modifiedContent = a.modifiedContent,
                                           !.changeId = a.changeId, !.modified = modified]]
                 /\ changelog' = a.changelog
                 /\ UNCHANGED processingFiles
            ELSE \E ended \in {endSessionStart(a.changelog)} :
                 /\ changelog' = ended.changelog
                 /\ IF ended.saving
                    THEN /\ flows' = [flows EXCEPT ![f] =
                                        [fl EXCEPT !.pc = "saving", !.modified = modified,
                                                   !.saveContent = ended.saveContent]]
                         /\ UNCHANGED processingFiles
                    ELSE /\ flows' = [flows EXCEPT ![f] = returned(fl, modified)]
                         /\ processingFiles' = released(fl, processingFiles)
    /\ UNCHANGED <<docs, persisted, ret, patch, writes>>

\* vault.modify(file, modifiedContent) of applyChanges resolves: recordAfter,
\* then endSession() up to its await
ModifyFile(f) ==
    /\ flows[f].kind \in {"current", "auto", "vault"}
    /\ flows[f].pc = "modify"
    /\ \E fl \in {flows[f]} :
       IF IsSome(docs[fl.file])
       THEN \E after \in {recordAfter(changelog, fl.changeId, fl.modifiedContent,
                                      "content_modified", "Added")} :
            \E ended \in {endSessionStart(after)} :
            /\ docs' = [docs EXCEPT ![fl.file] = Some(fl.modifiedContent)]
            /\ writes' = writes \cup {[by |-> f, path |-> fl.file, before |-> docs[fl.file][1],
                                       after |-> fl.modifiedContent]}
            /\ changelog' = ended.changelog
            /\ IF ended.saving
               THEN /\ flows' = [flows EXCEPT ![f] =
                                   [fl EXCEPT !.pc = "saving",
                                              !.saveContent = ended.saveContent]]
                    /\ UNCHANGED processingFiles
               ELSE /\ flows' = [flows EXCEPT ![f] = returned(fl, fl.modified)]
                    /\ processingFiles' = released(fl, processingFiles)
       ELSE /\ flows' = [flows EXCEPT ![f] = threw(fl)]
            /\ processingFiles' = released(fl, processingFiles)
            /\ UNCHANGED <<docs, writes, changelog>>
    /\ UNCHANGED <<persisted, ret, patch>>

\* saveChangelog() resolves inside endSession(): the changelog file holds the
\* content that was written, this.currentSession = null, and the command that
\* awaited endSession() goes on
SaveDone(f) ==
    LET fl == flows[f] IN
    /\ fl.pc = "saving"
    /\ persisted' = fl.saveContent
    /\ changelog' = endSessionClear(changelog)
    /\ flows' = [flows EXCEPT ![f] =
                    IF fl.kind = "backlinks"
                    THEN [DropLocals(fl) EXCEPT !.pc = "done"]
                    ELSE returned(fl, fl.modified)]
    /\ processingFiles' = released(fl, processingFiles)
    /\ UNCHANGED <<docs, ret, patch, writes>>

\* the write of the changelog file rejects inside saveChangelog(): endSession()
\* rejects before it clears currentSession, applyChanges and processFile
\* reject with it, and the catch block of the command runs
SaveFails(f) ==
    LET fl == flows[f] IN
    /\ fl.pc = "saving"
    /\ flows' = [flows EXCEPT ![f] = threw(fl)]
    /\ processingFiles' = released(fl, processingFiles)
    /\ UNCHANGED <<svcVars, patch, writes>>

\* delay(500) of processEntireVault resolves
Delay(f) ==
    /\ flows[f].kind = "vault"
    /\ flows[f].pc = "delay"
    /\ flows' = [flows EXCEPT ![f] = nextFile(flows[f])]
    /\ UNCHANGED <<svcVars, patch, processingFiles, writes>>

\* lines 702-706: the source title is mentioned in content and not linked
mentionsUnlinked(content, title) ==
    /\ \E lowerContent \in {toLowerCase(content)}, sourceTitle \in {toLowerCase(title)} :
          includes(lowerContent, sourceTitle)
    /\ ~targetLinked(content, title)

\* vault.read(file) of processBacklinks resolves
BacklinkRead(f) ==
    /\ flows[f].kind = "backlinks"
    /\ flows[f].pc = "read"
    /\ \E fl \in {flows[f]} :
       IF ~IsSome(docs[fl.file])
       THEN /\ flows' = [flows EXCEPT ![f] = [DropLocals(fl) EXCEPT !.pc = "done"]]
            /\ UNCHANGED changelog
       ELSE \E content \in {docs[fl.file][1]}, title \in {basename(fl.active)} :
            IF mentionsUnlinked(content, title)
            THEN \E link \in {[targetText |-> title, linkTarget |-> title, confidence |-> 80]},
                    changeId \in {generateId(changelog)},
                    recorded \in {recordBefore(changelog, fl.file, content)} :
                 \E newContent \in {applyLinks(content, <<link>>)} :
                 IF newContent # content
                 THEN /\ flows' = [flows EXCEPT ![f] =
                                     [fl EXCEPT !.pc = "modify", !.originalContent = content,
                                                !.modifiedContent = newContent,
                                                !.changeId = changeId]]
                      /\ changelog' = recorded
                 ELSE \E next \in {backlinksAdvance(fl, recorded)} :
                      /\ flows' = [flows EXCEPT ![f] = next.flow]
                      /\ changelog' = next.changelog
            ELSE \E next \in {backlinksAdvance(fl, changelog)} :
                 /\ flows' = [flows EXCEPT ![f] = next.flow]
                 /\ changelog' = next.changelog
    /\ UNCHANGED <<docs, persisted, ret, patch, processingFiles, writes>>

\* vault.modify(file, newContent) of processBacklinks resolves
BacklinkModify(f) ==
    /\ flows[f].kind = "backlinks"
    /\ flows[f].pc = "modify"
    /\ \E fl \in {flows[f]} :
       IF IsSome(docs[fl.file])
       THEN \E after \in {recordAfter(changelog, fl.changeId, fl.modifiedContent,
                                      "link_added", "Added backlink")} :
            \E next \in {backlinksAdvance(fl, after)} :
            /\ docs' = [docs EXCEPT ![fl.file] = Some(fl.modifiedContent)]
            /\ writes' = writes \cup {[by |-> f, path |-> fl.file, before |-> docs[fl.file][1],
                                       after |-> fl.modifiedContent]}
            /\ flows' = [flows EXCEPT ![f] = next.flow]
            /\ changelog' = next.changelog
       ELSE /\ flows' = [flows EXCEPT ![f] = [DropLocals(fl) EXCEPT !.pc = "done"]]
            /\ UNCHANGED <<docs, writes, changelog>>
    /\ UNCHANGED <<persisted, ret, patch, processingFiles>>

NextOrch ==
    \E f \in FlowIds :
        \/ \E activeFile \in Paths : ProcessCurrentNote(f, activeFile)
        \/ \E file \in Paths : AutoProcess(f, file)
        \/ ProcessEntireVault(f)
        \/ \E activeFile \in Paths : ProcessBacklinks(f, activeFile)
        \/ ReadFile(f)
        \/ \E result \in OracleResults : AnalyzeNote(f, result)
        \/ ModifyFile(f)
        \/ SaveDone(f)
        \/ Delay(f)
        \/ BacklinkRead(f)
        \/ BacklinkModify(f)

SpecOrch == InitOrch /\ [][NextOrch]_vars

\* no command is between two of its awaits
Quiet == \A f \in FlowIds : flows[f].pc \in {"idle", "done", "dropped"}

\* the change entries of the changelog on disk
PersistedEntries ==
    UNION {{persisted[i].changes[k] : k \in 1..Len(persisted[i].changes)} :
              i \in 1..Len(persisted)}

\* C9: every modification is reversible: once all commands in flight have
\* finished, every document write a processing command performed is covered
\* by a persisted change entry for that document whose beforeContent is the
\* content the document had just before the write, whatever the interleaving.
C9_EveryWriteCovered ==
    Quiet =>
        \A w \in writes :
            \E e \in PersistedEntries :
                e.filePath = w.path /\ e.beforeContent = Some(w.before)

\* an analysis (processCurrentNote, processFile) of a document is in flight
Analysing(f, path) ==
    /\ flows[f].kind \in {"current", "auto", "vault"}
    /\ flows[f].pc \in {"read", "analyze", "modify", "saving"}
    /\ flows[f].file = path

\* C10: no two analysis operations on the same document are in flight at the
\* same time, whichever of process-current-note, process-entire-vault and
\* save-triggered auto-processing started them.
C10_OneAnalysisPerDocument ==
    \A f, g \in FlowIds : \A path \in Paths :
        (Analysing(f, path) /\ Analysing(g, path)) => f = g

\* the commands that work on several documents
Batch(f) == flows[f].kind \in {"vault", "backlinks"}

\* the only command invoked so far is f
Alone(f) == \A g \in FlowIds \ {f} : flows[g].pc = "idle"

\* session (by value) holds a change entry that undoes write w
Undoes(session, w) ==
    \E k \in 1..Len(session.changes) :
        /\ session.changes[k].filePath = w.path
        /\ session.changes[k].beforeContent = Some(w.before)

\* C11: all document changes made by one multi-document operation
\* (process-entire-vault, add-backlinks) are recorded in a single changelog
\* session: when the operation, run on its own, has finished, one persisted
\* session holds a change entry for every document write the operation made,
\* so that one rollbackSession call restores every document of the batch.
C11_BatchInOneSession ==
    \A f \in FlowIds :
        (Batch(f) /\ Alone(f) /\ flows[f].pc = "done" /\ \E w \in writes : w.by = f) =>
            \E i \in 1..Len(persisted) :
                \A w \in writes : w.by = f => Undoes(persisted[i], w)

\* command f has called startSession() and its endSession() has not returned:
\* applyChanges awaits vault.modify or saveChangelog; processBacklinks is
\* anywhere between main.ts 692 and the return of 738
InSession(f) ==
    \/ flows[f].kind \in {"current", "auto", "vault"} /\ flows[f].pc \in {"modify", "saving"}
    \/ flows[f].kind = "backlinks" /\ flows[f].pc \in {"read", "modify", "saving"}

\* C12: the changelog's in-memory state is mutated by one flow at a time:
\* no command calls startSession (or records, or ends a session) between
\* another command's startSession and that command's endSession, so two
\* commands are never both between their startSession and their endSession.
C12_OneFlowInSession ==
    \A f, g \in FlowIds : (InSession(f) /\ InSession(g)) => f = g

\* buildVaultContext 308-309: existingNotes = files.map(f => f.basename)
existingNotes == {basename(Files[i]) : i \in 1..Len(Files)}

\* the targets of the wiki links in content: for every "[[", the text up to
\* the first "|" or "]" after it
linkTargetsIn(content) ==
    {Only({SubSeq(content, at + 2, stop - 1) :
           stop \in {IF \E j \in (at + 2)..Len(content) : content[j] \in {"|", "]"}
                     THEN CHOOSE j \in (at + 2)..Len(content) :
                              /\ content[j] \in {"|", "]"}
                              /\ \A i \in (at + 2)..(j - 1) : content[i] \notin {"|", "]"}
                     ELSE Len(content) + 1}}) :
     at \in {i \in 1..(Len(content) - 1) : content[i] = "[" /\ content[i + 1] = "["}}

\* C13: every link suggestion the processing commands hand to applyLinks has
\* its linkTarget in the set of known document titles, so whatever the oracle
\* returns no document ever holds a link to a document that does not exist.
C13_NoLinkToUnknownNote ==
    \A p \in Paths :
        IsSome(docs[p]) => linkTargetsIn(docs[p][1]) \subseteq existingNotes

\* word is a blacklist term for name: case-insensitive substring match
blacklisted(name) ==
    \E i \in 1..Len(settings.blacklistWords) :
        includes(toLowerCase(name), toLowerCase(settings.blacklistWords[i]))

\* C14: blacklisted words are never tagged: whatever the oracle returns, no
\* document ever carries a tag (in its frontmatter or inline) whose name
\* contains a configured blacklist word.
C14_NoBlacklistedTag ==
    \A p \in Paths :
        IsSome(docs[p]) => \A t \in extractExistingTags(docs[p][1]) : ~blacklisted(t)

(***************************************************************************)
(* The suggestion filters of the engines                                   *)
(* (src/src/engines/linking-engine.ts, src/src/engines/tagging-engine.ts). *)
(* Confidences and thresholds are in hundredths.                           *)
(***************************************************************************)
\* setConfidenceThreshold: Math.max(0, Math.min(1, threshold))
clampThreshold(threshold) ==
    IF threshold > 100 THEN 100 ELSE IF threshold < 0 THEN 0 ELSE threshold

\* linkRegex /\[\[([^\]]+)\]\]/ matches at offset o: "[[", one or more
\* characters other than "]", "]]"; the offset after the match, -1 when none
linkRegexEnd(content, o) ==
    IF ~OccursAt(content, <<"[", "[">>, o) THEN -1
    ELSE Only({IF e > o + 2 /\ OccursAt(content, <<"]", "]">>, e) THEN e + 2 ELSE -1 :
               e \in {CHOOSE x \in (o + 2)..Len(content) :
                         /\ x = Len(content) \/ content[x + 1] = "]"
                         /\ \A j \in (o + 3)..x : content[j] # "]"}})

\* linking-engine.ts 152-160: some match of linkRegex holds targetText, case
\* folded.  A match that starts inside another match is a part of it, so the
\* matches exec() passes over do not change the answer.
isInsideLink(content, targetText) ==
    \E lowText \in {toLowerCase(targetText)} :
        \E o \in 0..Len(content) :
            \E e \in {linkRegexEnd(content, o)} :
                e >= 0 /\ includes(toLowerCase(Slice(content, o, e)), lowText)

\* variant of linkPasses that leaves out the confidence test
linkPassesAnyConfidence(link, content, notes, confidenceThreshold) ==
    /\ \E i \in 1..Len(notes) : notes[i] = link.linkTarget
    /\ ~includes(content, <<"[", "[">> \o link.linkTarget \o <<"]", "]">>)
    /\ \E lowContent \in {toLowerCase(content)}, lowText \in {toLowerCase(link.targetText)} :
           includes(lowContent, lowText)
    /\ ~isInsideLink(content, link.targetText)

\* filterLinks 126-166: the body of the loop reaches toApply.push(link)
linkPasses(link, content, notes, confidenceThreshold) ==
    /\ ~(link.confidence < confidenceThreshold)
    /\ \E i \in 1..Len(notes) : notes[i] = link.linkTarget
    /\ ~includes(content, <<"[", "[">> \o link.linkTarget \o <<"]", "]">>)
    /\ \E lowContent \in {toLowerCase(content)}, lowText \in {toLowerCase(link.targetText)} :
           includes(lowContent, lowText)
    /\ ~isInsideLink(content, link.targetText)

\* LinkingEngine.filterLinks(links, content, existingNotes); notes is existingNotes
filterLinks(links, content, notes, confidenceThreshold) ==
    Only({[toApply |-> Filter(links, passes),
           toSkip |-> Filter(links, [i \in 1..Len(links) |-> ~passes[i]])] :
          passes \in {[i \in 1..Len(links) |->
                         linkPasses(links[i], content, notes, confidenceThreshold)]}})

\* tagging-engine.ts 138
normalizedTag(tag) == IF Len(tag) > 0 /\ tag[1] = "#" THEN tag ELSE <<"#">> \o tag

\* TaggingEngine.isTagInFrontmatter(content, tagWithoutHash); /^tags:\s*(.*)$/m
\* captures what the tags line expression of extractExistingTags captures
isTagInFrontmatter(content, tagWithoutHash) ==
    \E fm \in {frontmatterMatch(content)} :
        /\ fm.found
        /\ \E line \in {tagsLineMatch(fm.body)} :
              /\ line.found
              /\ includes(toLowerCase(line.value), toLowerCase(tagWithoutHash))

\* tagging-engine.ts 167-178: the tag is known when new tags are not allowed
tagKnown(normalized, context) ==
    \/ \E i \in 1..Len(context.existingTags) : context.existingTags[i] = normalized
    \/ \E i \in 1..Len(context.predefinedTags) :
          \E p \in {toLowerCase(context.predefinedTags[i])} :
              p = toLowerCase(normalized) \/ p = toLowerCase(Tail(normalized))

\* filterTags 136-180: the body of the loop reaches toApply.push(tag)
tagPasses(tag, content, context, confidenceThreshold, allowNewTags) ==
    \E normalized \in {normalizedTag(tag.tag)} :
        /\ ~(tag.confidence < confidenceThreshold)
        /\ ~includes(content, normalized)
        /\ ~isTagInFrontmatter(content, Tail(normalized))
        /\ ~\E i \in 1..Len(context.blacklistWords) :
               includes(toLowerCase(normalized), toLowerCase(context.blacklistWords[i]))
        /\ allowNewTags \/ tagKnown(normalized, context)

\* TaggingEngine.filterTags(tags, content, context)
filterTags(tags, content, context, confidenceThreshold, allowNewTags) ==
    Only({[toApply |-> Filter(tags, passes),
           toSkip |-> Filter(tags, [i \in 1..Len(tags) |-> ~passes[i]])] :
          passes \in {[i \in 1..Len(tags) |->
                         tagPasses(tags[i], content, context, confidenceThreshold,
                                   allowNewTags)]}})

(***************************************************************************)
(* The filters on their own: an engine is built with its defaults, the     *)
(* note, the suggestion list and the vault context are drawn at the start; *)
(* the threshold is set, the filter is called, and the suggestions it      *)
(* accepts are applied as processNote applies them.                        *)
(***************************************************************************)
MaxRuns == 2

MaxSuggestions == 2

Cats == <<"C", "a", "t", "s">>

cats == <<"c", "a", "t", "s">>

\* "I love cats."
ILoveCats == <<"I", " ", "l", "o", "v", "e", " ", "c", "a", "t", "s", ".">>

\* context.existingNotes: the one note "Cats"
FilterNotes == <<Cats>>

\* "I love cats.", "", "[[Cats]] cats", "[[my cats]]", "[[Cats|x]] k"
FilterLinkContents ==
    { ILoveCats,
      <<>>,
      <<"[", "[">> \o Cats \o <<"]", "]", " ">> \o cats,
      <<"[", "[", "m", "y", " ">> \o cats \o <<"]", "]">>,
      <<"[", "[">> \o Cats \o <<"|", "x", "]", "]", " ", "k">> }

FilterLinkSuggestions ==
    [targetText : {cats, <<>>, <<"k">>},
     linkTarget : {Cats, <<"Z">>},
     confidence : {50, 90}]

\* "", "#a", "---\ntags: [b]\n---\n"
FilterTagContents ==
    { <<>>,
      <<"#", "a">>,
      <<"-", "-", "-", "\n", "t", "a", "g", "s", ":", " ", "[", "b", "]", "\n", "-", "-", "-", "\n">> }

FilterTagSuggestions ==
    [tag : {<<"a">>, <<"#", "b">>, <<"c">>, <<"C">>, <<"x">>},
     location : {"frontmatter"},
     confidence : {50, 90}]

\* the vault context the tag filter reads
FilterContext ==
    [existingTags |-> << <<"#", "c">> >>,
     predefinedTags |-> << <<"B">> >>,
     blacklistWords |-> << <<"X">> >>]

\* the values setConfidenceThreshold is called with
Thresholds == {50, 95, 120}

\* a new engine: confidenceThreshold = 0.7, allowNewTags = true
NewEngine(fn, content, links, tags) ==
    [fn |-> fn, content |-> content, links |-> links, tags |-> tags,
     confidenceThreshold |-> 70, allowNewTags |-> TRUE,
     out |-> <<>>, newContent |-> None]

InitFilter ==
    /\ IdleService
    /\ \/ \E content \in FilterLinkContents,
             links \in SeqsUpTo(FilterLinkSuggestions, MaxSuggestions) :
             patch = NewEngine("filterLinks", content, links, <<>>)
       \/ \E content \in FilterTagContents,
             tags \in SeqsUpTo(FilterTagSuggestions, MaxSuggestions) :
             patch = NewEngine("filterTags", content, <<>>, tags)

SetConfidenceThreshold(threshold) ==
    /\ Len(patch.out) < MaxRuns
    /\ patch' = [patch EXCEPT !.confidenceThreshold = clampThreshold(threshold)]
    /\ UNCHANGED <<svcVars, orchVars>>

SetAllowNewTags(allow) ==
    /\ patch.fn = "filterTags"
    /\ Len(patch.out) < MaxRuns
    /\ patch' = [patch EXCEPT !.allowNewTags = allow]
    /\ UNCHANGED <<svcVars, orchVars>>

\* one call of filterLinks; out keeps the result with the threshold in force
FilterLinks ==
    /\ patch.fn = "filterLinks"
    /\ Len(patch.out) < MaxRuns
    /\ \E valid \in {filterLinks(patch.links, patch.content, FilterNotes,
                                 patch.confidenceThreshold)} :
          patch' = [patch EXCEPT !.out = Append(@,
                       [confidenceThreshold |-> patch.confidenceThreshold,
                        allowNewTags |-> patch.allowNewTags,
                        toApply |-> valid.toApply, toSkip |-> valid.toSkip])]
    /\ UNCHANGED <<svcVars, orchVars>>

\* one call of filterTags
FilterTags ==
    /\ patch.fn = "filterTags"
    /\ Len(patch.out) < MaxRuns
    /\ \E valid \in {filterTags(patch.tags, patch.content, FilterContext,
                                patch.confidenceThreshold, patch.allowNewTags)} :
          patch' = [patch EXCEPT !.out = Append(@,
                       [confidenceThreshold |-> patch.confidenceThreshold,
                        allowNewTags |-> patch.allowNewTags,
                        toApply |-> valid.toApply, toSkip |-> valid.toSkip])]
    /\ UNCHANGED <<svcVars, orchVars>>

\* linking-engine.ts 80-85: the accepted links of the last call are applied
ApplyValidLinks ==
    /\ patch.fn = "filterLinks"
    /\ Len(patch.out) > 0
    /\ patch.newContent = None
    /\ \E toApply \in {Last(patch.out).toApply} :
          /\ Len(toApply) > 0
          /\ patch' = [patch EXCEPT !.newContent = Some(applyLinks(patch.content, toApply))]
    /\ UNCHANGED <<svcVars, orchVars>>

\* tagging-engine.ts 90-95: the accepted tags of the last call are applied
ApplyValidTags ==
    /\ patch.fn = "filterTags"
    /\ Len(patch.out) > 0
    /\ patch.newContent = None
    /\ \E toApply \in {Last(patch.out).toApply} :
          /\ Len(toApply) > 0
          /\ patch' = [patch EXCEPT !.newContent = Some(applyTags(patch.content, toApply))]
    /\ UNCHANGED <<svcVars, orchVars>>

NextFilter ==
    \/ \E threshold \in Thresholds : SetConfidenceThreshold(threshold)
    \/ \E allow \in BOOLEAN : SetAllowNewTags(allow)
    \/ FilterLinks
    \/ FilterTags
    \/ ApplyValidLinks
    \/ ApplyValidTags

SpecFilter == InitFilter /\ [][NextFilter]_vars

\* the call of filterLinks recorded in run is the one of the scenario
CatsScenario(run) ==
    /\ patch.fn = "filterLinks"
    /\ patch.content = ILoveCats
    /\ patch.links = <<[targetText |-> cats, linkTarget |-> Cats, confidence |-> 90]>>
    /\ run.confidenceThreshold = 70

\* C15: with content "I love cats.", the suggestion {targetText "cats",
\* linkTarget "Cats", confidence 0.9}, known targets ["Cats"] and threshold
\* 0.7, filterLinks accepts the suggestion and applyLinks returns
\* "I love [[Cats|cats]].": the matched text, whose case differs from the
\* link target, is kept as the display text of an alias link.
C15_CatsAliasLink ==
    (/\ patch.fn = "filterLinks"
     /\ Len(patch.out) > 0
     /\ CatsScenario(Last(patch.out))
     /\ IsSome(patch.newContent)) =>
        /\ Last(patch.out).toApply = patch.links
        /\ patch.newContent[1] =
              <<"I", " ", "l", "o", "v", "e", " ", "[", "[">> \o Cats \o <<"|">>
                 \o cats \o <<"]", "]", ".">>

\* C16: a link suggestion whose targetText is the empty string is never
\* applied: every call of filterLinks routes it to toSkip, none puts it in
\* toApply.
C16_EmptyTargetTextSkipped ==
    patch.fn = "filterLinks" =>
        \A r \in 1..Len(patch.out) :
            \A i \in 1..Len(patch.links) :
                patch.links[i].targetText = <<>> =>
                    /\ patch.links[i] \in Range(patch.out[r].toSkip)
                    /\ patch.links[i] \notin Range(patch.out[r].toApply)

\* the suggestion list the engine under test was given
Suggestions == IF patch.fn = "filterLinks" THEN patch.links ELSE patch.tags

\* C17: confidence monotonicity: for a fixed suggestion list, content and
\* context, the toApply result of filterLinks (and of filterTags) at a
\* threshold t2 is a subset of its toApply result at any threshold t1 <= t2,
\* and a suggestion whose confidence is below the threshold is in toSkip
\* (and not in toApply) whatever its other properties.
C17_ConfidenceMonotone ==
    patch.fn \in {"filterLinks", "filterTags"} =>
        /\ \A r, q \in 1..Len(patch.out) :
              (/\ patch.out[r].confidenceThreshold <= patch.out[q].confidenceThreshold
               /\ patch.out[r].allowNewTags = patch.out[q].allowNewTags) =>
                  Range(patch.out[q].toApply) \subseteq Range(patch.out[r].toApply)
        /\ \A r \in 1..Len(patch.out) :
              \A i \in 1..Len(Suggestions) :
                  Suggestions[i].confidence < patch.out[r].confidenceThreshold =>
                      /\ Suggestions[i] \in Range(patch.out[r].toSkip)
                      /\ Suggestions[i] \notin Range(patch.out[r].toApply)

\* the filter was called at 0.7 and then at 0.5, and the call at the higher
\* threshold accepted one suggestion of the two the other call accepted
C17_Witness ==
    /\ patch.fn \in {"filterLinks", "filterTags"}
    /\ Len(patch.out) = 2
    /\ patch.out[1].confidenceThreshold = 70
    /\ patch.out[2].confidenceThreshold = 50
    /\ Len(patch.out[1].toApply) = 1
    /\ Len(patch.out[1].toSkip) = 1
    /\ Len(patch.out[2].toApply) = 2

(***************************************************************************)
(* The change log filled past its retention bound: commands run one after  *)
(* the other, each opens a session, records one change to a.md and ends    *)
(* the session.  A session that records nothing is ended only while the    *)
(* first MaxIds identifiers are handed out.                                *)
(***************************************************************************)
MaxSessionIds == 108

InitLog ==
    /\ IdleService
    /\ patch = NoPatch

LogStartSession ==
    /\ changelog.currentSession = 0
    /\ changelog.nextId < MaxSessionIds
    /\ changelog' = startSession(changelog)
    /\ ret' = NoCall
    /\ UNCHANGED <<docs, persisted, others>>

LogRecordBefore ==
    /\ changelog.currentSession # 0
    /\ Len(changelog.heap[changelog.currentSession].changes) = 0
    /\ changelog' = recordBefore(changelog, "a.md", docs["a.md"][1])
    /\ ret' = NoCall
    /\ UNCHANGED <<docs, persisted, others>>

LogEndSession ==
    /\ endSessionSaves(changelog) \/ changelog.nextId <= MaxIds + 1
    /\ EndSession

NextLog ==
    \/ LogStartSession
    \/ LogRecordBefore
    \/ LogEndSession

SpecLog == InitLog /\ [][NextLog]_vars

\* the current session as endSession() stores it
ClosingSession == [changelog.heap[changelog.currentSession] EXCEPT !.ended = TRUE]

\* C18: retention bound: starting from an empty log the number of persisted
\* sessions never exceeds 50, and an endSession that would take it past 50
\* discards exactly the oldest session: the 50 most recently ended sessions
\* remain, in their original order.
C18_RetentionBound ==
    /\ [](Len(persisted) <= 50 /\ Len(changelog.storage) <= 50)
    /\ [][(endSessionSaves(changelog) /\ changelog'.currentSession = 0) =>
             /\ Last(persisted') = ClosingSession
             /\ IF Len(persisted) < 50
                THEN persisted' = Append(persisted, ClosingSession)
                ELSE persisted' = Append(Tail(persisted), ClosingSession)]_vars

\* 51 sessions with a change have been ended: the log is full and its first
\* session is no longer the first one that was stored
C18_Witness ==
    /\ changelog.currentSession = 0
    /\ Len(persisted) = 50
    /\ changelog.nextId > 2 * 50 + MaxIds + 1

(***************************************************************************)
(* One process-entire-vault run with failing steps: notes are deleted      *)
(* before and while the run is suspended (the read or the write of a       *)
(* deleted note rejects), the oracle call rejects, the write of the        *)
(* changelog file rejects.  No other command is invoked.                   *)
(***************************************************************************)
\* the command is invoked once
VaultRun(f) ==
    /\ Alone(f)
    /\ ProcessEntireVault(f)

NextVault ==
    \/ DeleteDoc
    \/ \E f \in FlowIds :
          \/ VaultRun(f)
          \/ ReadFile(f)
          \/ \E result \in OracleResults : AnalyzeNote(f, result)
          \/ ModifyFile(f)
          \/ SaveDone(f)
          \/ SaveFails(f)
          \/ Delay(f)

SpecVault == InitOrch /\ [][NextVault]_vars

\* the documents run f has written
WrittenBy(f) == {w.path : w \in {x \in writes : x.by = f}}

\* C19: process-entire-vault is partial-failure tolerant: a run attempts every
\* document exactly once, in order, even when steps fail for some documents,
\* and when it has finished processed is the number of documents, errors the
\* number of documents whose processing failed and modified the number of
\* documents whose content was written.
C19_VaultRunCounts ==
    \A f \in FlowIds :
        (flows[f].kind = "vault" /\ flows[f].pc = "done") =>
            /\ Len(flows[f].attempted) = flows[f].totalFiles
            /\ Cardinality(Range(flows[f].attempted)) = flows[f].totalFiles
            /\ flows[f].processed = flows[f].totalFiles
            /\ flows[f].errors = Cardinality(flows[f].failed)
            /\ flows[f].modifiedCount = Cardinality(WrittenBy(f))

(***************************************************************************)
(* process-current-note invoked again and again, each time after the       *)
(* invocation before it has finished.                                      *)
(***************************************************************************)
\* the command is invoked while no command is in flight
Rerun(f, activeFile) ==
    /\ Quiet
    /\ ProcessCurrentNote(f, activeFile)

NextRerun ==
    \E f \in FlowIds :
        \/ \E activeFile \in Paths : Rerun(f, activeFile)
        \/ ReadFile(f)
        \/ \E result \in OracleResults : AnalyzeNote(f, result)
        \/ ModifyFile(f)
        \/ SaveDone(f)

SpecRerun == InitOrch /\ [][NextRerun]_vars

\* run g of process-current-note, taking this step, repeats the finished run
\* f: same note, and the oracle has returned to g what it returned to f
Repeats(g, f) ==
    /\ f # g
    /\ flows[f].kind = "current" /\ flows[f].pc = "done" /\ IsSome(flows[f].result)
    /\ flows[g].kind = "current" /\ flows[g].pc \in {"analyze", "modify", "saving"}
    /\ flows[g].file = flows[f].file
    /\ flows'[g] # flows[g]
    /\ flows'[g].result = flows[f].result

\* C20: commands are idempotent to re-invoke: when process-current-note is
\* run again on a document and the oracle returns the suggestions of the
\* previous run, no step of the second run changes a document or the
\* persisted changelog.
C20_RerunChangesNothing ==
    [][\A f, g \in FlowIds :
          Repeats(g, f) => (docs' = docs /\ persisted' = persisted)]_vars

(***************************************************************************)
(* Offsets of several suggestions in one applyLinks call.                  *)
(***************************************************************************)
\* the offset of the first occurrence of every suggestion's target text
firstOffsets(content, links) ==
    [i \in 1..Len(links) |-> lowerIndexOf(content, links[i].targetText)]

\* content holds no bracket, every target text is non-empty and occurs in it, the
\* link targets are distinct and the first occurrences lie apart from each other
OffsetCase(content, links) ==
    /\ Len(links) >= 2
    /\ \A k \in 1..Len(content) : content[k] \notin {"[", "]"}
    /\ \E pos \in {firstOffsets(content, links)} :
          /\ \A i \in 1..Len(links) : links[i].targetText # <<>> /\ pos[i] >= 0
          /\ \A i, j \in 1..Len(links) :
                i # j => /\ links[i].linkTarget # links[j].linkTarget
                         /\ \/ pos[i] + Len(links[i].targetText) <= pos[j]
                            \/ pos[j] + Len(links[j].targetText) <= pos[i]

\* content with the first occurrence of every target text replaced by the
\* suggestion's own link and nothing else changed: the replacements are made at
\* the offsets in content, last offset first
linkedInPlace(content, links) ==
    LET sorted == sortedLinks(content, links)
        F[i \in 0..Len(sorted)] ==
            IF i = 0 THEN content
            ELSE linkAt(F[i-1], sorted[i], lowerIndexOf(content, sorted[i].targetText))
    IN F[Len(sorted)]

\* C21: offset-safety: for two or more suggestions with distinct link targets
\* whose target texts first occur at different offsets of link-free content,
\* applyLinks replaces the first occurrence of each target text with that
\* suggestion's own link and leaves all other text unchanged, and the result
\* is the same for the suggestion list in the opposite order.
C21_OffsetSafety ==
    (/\ patch.fn = "applyLinks"
     /\ Len(patch.out) >= 2
     /\ OffsetCase(patch.out[1], patch.links)) =>
        /\ patch.out[2] = linkedInPlace(patch.out[1], patch.links)
        /\ applyLinks(patch.out[1], Reverse(patch.links)) = patch.out[2]

(***************************************************************************)
(* Entries that recordAfter never completed                                *)
(***************************************************************************)
\* a change entry as recordBefore left it
IsPending(c) ==
    /\ c.description = "Pending..."
    /\ IsSome(c.beforeContent)
    /\ ~IsSome(c.afterContent)

\* the pending entries of the session that endSession is closing
PendingOfCurrent ==
    LET changes == changelog.heap[changelog.currentSession].changes
    IN  {changes[k] : k \in {j \in 1..Len(changes) : IsPending(changes[j])}}

\* the persisted entry id is pending and its document exists
PendingCase(id) ==
    \E ik \in EntriesOf(persisted, id) :
       LET c == persisted[ik[1]].changes[ik[2]] IN
       IsPending(c) /\ IsSome(docs[c.filePath])

\* C22: a change entry for which recordBefore was called but recordAfter never
\* was is, at endSession, persisted in its pending form with beforeContent set,
\* and a later rollbackChange on it returns true and restores beforeContent.
C22_PendingRollbackable ==
    /\ [][(changelog.currentSession # 0 /\ EndSession) =>
             \A c \in PendingOfCurrent :
                \E i \in 1..Len(persisted') :
                   \E k \in 1..Len(persisted'[i].changes) : persisted'[i].changes[k] = c]_svcVars
    /\ [][ret'.op = "rollbackChange" =>
             \A id \in CallerIds :
                (PendingCase(id) /\ RollbackChange(id)) => RoundTripRestored(id)]_svcVars

(***************************************************************************)
(* The tag filter with new-tag generation disabled                         *)
(***************************************************************************)
\* a tag name without its leading # marker, in lower case
bareTag(name) ==
    toLowerCase(IF Len(name) > 0 /\ name[1] = "#" THEN Tail(name) ELSE name)

\* name equals, case-insensitively and with or without the marker, an existing
\* corpus tag or a configured predefined tag
knownTag(name, context) ==
    \/ \E i \in 1..Len(context.existingTags) : bareTag(context.existingTags[i]) = bareTag(name)
    \/ \E i \in 1..Len(context.predefinedTags) : bareTag(context.predefinedTags[i]) = bareTag(name)

\* C23: when new-tag generation is disabled, filterTags accepts a tag that
\* passes the other checks if and only if it equals, case-insensitively and
\* with or without the leading # marker, an existing corpus tag or a
\* configured predefined tag.
C23_KnownTagsOnly ==
    patch.fn = "filterTags" =>
        \A r \in 1..Len(patch.out) :
            ~patch.out[r].allowNewTags =>
                patch.out[r].toApply =
                    Filter(patch.tags,
                           [i \in 1..Len(patch.tags) |->
                               /\ tagPasses(patch.tags[i], patch.content, FilterContext,
                                            patch.out[r].confidenceThreshold, TRUE)
                               /\ knownTag(patch.tags[i].tag, FilterContext)])

(***************************************************************************)
(* PreferencesEngine (src/src/engines/preferences-engine.ts): analyzeVault *)
(* and extractTags.  The engine's preferences are kept in patch.           *)
(***************************************************************************)
MaxAnalyses == 2     \* analyzeVault calls per behaviour

\* [\w-] of inlineTagRegex /#[\w-]+/g
isWordChar(c) == isLetter(c) \/ c \in Digits \/ c \in {"_", "-"}

\* group 1 of /^tags:\s*\[?(.*?)\]?$/m for the rest of the tags line: one
\* leading "[" and then one trailing "]" are left out of the group
tagsMatchGroup(value) ==
    Only({IF Len(open) > 0 /\ open[Len(open)] = "]"
          THEN SubSeq(open, 1, Len(open) - 1) ELSE open :
          open \in {IF Len(value) > 0 /\ value[1] = "[" THEN Tail(value) ELSE value}})

\* lines 145-149: split(',').map(trim).filter(non-empty).map(with a leading #)
fmTagsOf(group) ==
    Only({[i \in 1..Len(kept) |->
              IF kept[i][1] = "#" THEN kept[i] ELSE <<"#">> \o kept[i]] :
          kept \in {Filter(trimmed, [i \in 1..Len(trimmed) |-> Len(trimmed[i]) > 0]) :
                       trimmed \in {[i \in 1..Len(parts) |-> trim(parts[i])] :
                                       parts \in {splitComma(group)}}}})

\* lines 140-152: [found (tagsMatch is not null), tags (fmTags)]
headerTags(content) ==
    Only({IF fm.found
          THEN Only({IF line.found
                     THEN [found |-> TRUE, tags |-> fmTagsOf(tagsMatchGroup(line.value))]
                     ELSE [found |-> FALSE, tags |-> <<>>] :
                     line \in {tagsLineMatch(fm.body)}})
          ELSE [found |-> FALSE, tags |-> <<>>] :
          fm \in {frontmatterMatch(content)}})

\* end of the run of [\w-] that starts after the # at position h
wordRunEnd(content, h) ==
    CHOOSE e \in (h + 1)..Len(content) :
       /\ \A j \in (h + 1)..e : isWordChar(content[j])
       /\ e = Len(content) \/ ~isWordChar(content[e + 1])

\* the matches of /#[\w-]+/g in content, in order
inlineMatches(content) ==
    Only({[k \in 1..Cardinality(hs) |->
              SubSeq(content, Nth(hs, k), wordRunEnd(content, Nth(hs, k)))] :
          hs \in {{h \in 1..(Len(content) - 1) :
                      content[h] = "#" /\ isWordChar(content[h + 1])}}})

\* lines 155-161: every match that tags does not include yet is pushed
pushNew(tags, matches) ==
    LET F[i \in 0..Len(matches)] ==
            IF i = 0 THEN tags
            ELSE Only({IF matches[i] \in Range(sofar) THEN sofar
                       ELSE Append(sofar, matches[i]) : sofar \in {F[i-1]}})
    IN F[Len(matches)]

\* extractTags(content): { tags, isFrontmatter }
extractTags(content) ==
    Only({[tags |-> pushNew(header.tags, inlineMatches(content)),
           isFrontmatter |-> header.found] :
          header \in {headerTags(content)}})

\* analyzeVault lines 58-78: the two counters after the loop over the files;
\* read[i] is what vault.read returned for files[i]
tagCounters(read) ==
    LET F[i \in 0..Len(read)] ==
            IF i = 0 THEN [frontmatterTagCount |-> 0, inlineTagCount |-> 0]
            ELSE Only({IF found.isFrontmatter
                       THEN [acc EXCEPT !.frontmatterTagCount = @ + Len(found.tags)]
                       ELSE [acc EXCEPT !.inlineTagCount = @ + Len(found.tags)] :
                       acc \in {F[i-1]}, found \in {extractTags(read[i])}})
    IN F[Len(read)]

\* lines 118-120
tagLocation(frontmatterTagCount, inlineTagCount) ==
    IF frontmatterTagCount > inlineTagCount * 2 THEN "frontmatter"
    ELSE IF inlineTagCount > frontmatterTagCount * 2 THEN "inline"
    ELSE "mixed"

\* the notes analyzeVault is run on: with or without a header block, a tags
\* field with or without tags, and inline markers in the body
PrefHeaders ==
    { <<>>,
      <<"-", "-", "-", "\n", "t", "a", "g", "s", ":", " ", "[", "a", "]", "\n", "-", "-", "-", "\n">>,
      <<"-", "-", "-", "\n", "t", "a", "g", "s", ":", " ", "[", "]", "\n", "-", "-", "-", "\n">>,
      <<"-", "-", "-", "\n", "k", ":", " ", "v", "\n", "-", "-", "-", "\n">> }

PrefBodies ==
    { <<>>,
      <<"#", "b">>,
      <<"#", "b", " ", "#", "c", " ", "#", "d">> }

PrefContents == {h \o b : h \in PrefHeaders, b \in PrefBodies}

\* constructor: preferences = { ...DEFAULT_PREFERENCES }
InitPrefs ==
    /\ docs \in [Paths -> {Some(c) : c \in PrefContents}]
    /\ changelog = NewChangelog
    /\ persisted = <<>>
    /\ ret = NoCall
    /\ NoCommands
    /\ patch = [fn |-> "analyzeVault", preferredTagLocation |-> "frontmatter",
                lastUpdated |-> 0]

\* analyzeVault(); lastUpdated counts the calls
AnalyzeVault ==
    /\ patch.fn = "analyzeVault"
    /\ patch.lastUpdated < MaxAnalyses
    /\ \E files \in {getMarkdownFiles(docs)} :
       \E counters \in {tagCounters([i \in 1..Len(files) |-> docs[files[i]][1]])} :
          patch' = [patch EXCEPT
                       !.preferredTagLocation =
                           tagLocation(counters.frontmatterTagCount, counters.inlineTagCount),
                       !.lastUpdated = @ + 1]
    /\ UNCHANGED <<svcVars, orchVars>>

\* a note is edited between two analyses
EditNote ==
    /\ patch.fn = "analyzeVault"
    /\ \E p \in Paths, c \in PrefContents :
          /\ IsSome(docs[p])
          /\ docs[p] # Some(c)
          /\ docs' = [docs EXCEPT ![p] = Some(c)]
    /\ UNCHANGED <<changelog, persisted, ret, patch, orchVars>>

NextPrefs ==
    \/ AnalyzeVault
    \/ EditNote
    \/ DeleteDoc

SpecPrefs == InitPrefs /\ [][NextPrefs]_vars

\* the number of tags found in the header tag field of a note
headerTagCount(content) == Len(headerTags(content).tags)

\* the number of tags found as inline markers in a note (the markers that
\* extractTags adds to the tags of the header field)
inlineMarkerCount(content) == Len(extractTags(content).tags) - headerTagCount(content)

\* the sum of count over the notes of the vault
CorpusCount(d, Count(_)) ==
    LET files == getMarkdownFiles(d)
        F[i \in 0..Len(files)] ==
            IF i = 0 THEN 0 ELSE F[i-1] + Count(d[files[i]][1])
    IN F[Len(files)]

\* C24: after analyzeVault, preferredTagLocation is 'frontmatter' iff the
\* number of tags found in header tag fields across the corpus exceeds twice
\* the number of tags found as inline markers, 'inline' iff the inline count
\* exceeds twice the header count, and 'mixed' otherwise (both zero included).
C24_TagLocationRule ==
    [][AnalyzeVault =>
          \E header \in {CorpusCount(docs, headerTagCount)},
             inline \in {CorpusCount(docs, inlineMarkerCount)} :
             /\ (patch'.preferredTagLocation = "frontmatter") <=> (header > 2 * inline)
             /\ (patch'.preferredTagLocation = "inline") <=> (inline > 2 * header)
             /\ (patch'.preferredTagLocation = "mixed") <=>
                    (~(header > 2 * inline) /\ ~(inline > 2 * header))]_vars

(***************************************************************************)
(* Sessions after endSession                                               *)
(***************************************************************************)
\* the sessions endSession has closed (endTime set) and stored
ClosedSessions ==
    {s \in Range(changelog.storage) : changelog.heap[s].ended}

\* the step is a rollback call
IsRollback == ret'.op \in {"rollbackChange", "rollbackSession"}

\* C25: once a session has been closed by endSession, its change entries are
\* not altered by any later startSession, recordBefore, recordAfter or
\* recordChange call: in every step that is not a rollback, a closed session
\* that is still stored has the change entries it had, in memory and in the
\* persisted changelog.
C25_ClosedSessionImmutable ==
    [][~IsRollback =>
          /\ \A s \in ClosedSessions :
                s \in Range(changelog'.storage) =>
                    changelog'.heap[s].changes = changelog.heap[s].changes
          /\ \A i \in 1..Len(persisted) :
                \A j \in 1..Len(persisted') :
                    persisted'[j].sessionId = persisted[i].sessionId =>
                        persisted'[j].changes = persisted[i].changes]_vars

(***************************************************************************)
(* applyLinks on documents that start with a header block                  *)
(***************************************************************************)
LinkHeaders ==
    { <<"-", "-", "-", "\n", "a", ":", " ", "b", "\n", "-", "-", "-", "\n">>,
      <<"-", "-", "-", "\n", "k", ":", " ", "v", "\n", "-", "-", "-", "\n">> }

\* a header block followed by a body of up to MaxBodyLen letters
HeaderContents == {h \o b : h \in LinkHeaders, b \in SeqsUpTo({"a", "b"}, MaxBodyLen)}

InitHeaderLinks ==
    /\ IdleService
    /\ \E content \in HeaderContents, links \in SeqsUpTo(LinkSuggestions, MaxLinks) :
          patch = [fn |-> "applyLinks", links |-> links, tags |-> <<>>, out |-> <<content>>]

SpecHeaderLinks == InitHeaderLinks /\ [][NextLinks]_vars

\* the leading header block of content, delimiters included (<<>> when none)
headerBlock(content) ==
    Only({IF fm.found THEN Slice(content, 0, fm.end) ELSE <<>> :
          fm \in {frontmatterMatch(content)}})

\* C26: applyLinks is frontmatter-aware: it never alters the document's
\* leading header block; when the first occurrence of a target text lies
\* inside the header block no link is inserted there and the header block of
\* the result is identical to that of the input (checked for target texts
\* that are words).
C26_HeaderUntouched ==
    (/\ patch.fn = "applyLinks"
     /\ Len(patch.out) >= 2
     /\ \A i \in 1..Len(patch.links) : patch.links[i].targetText \in {<<"a">>, <<"b">>}
     /\ frontmatterMatch(patch.out[1]).found) =>
        headerBlock(patch.out[2]) = headerBlock(patch.out[1])

(***************************************************************************)
(* Undoing the changes of a document one by one: the service with notes    *)
(* that are rewritten from "x" to "y" and back.                            *)
(***************************************************************************)
UndoContents == { <<"x">>, <<"y">> }

InitUndo ==
    /\ docs = [p \in Paths |-> Some(<<"x">>)]
    /\ changelog = NewChangelog
    /\ patch = NoPatch
    /\ NoCommands
    /\ persisted = <<>>
    /\ ret = NoCall

\* the caller's patch (vault.modify between recordBefore and recordAfter)
WriteNote ==
    /\ \E p \in Paths, c \in UndoContents :
          /\ IsSome(docs[p])
          /\ docs[p] # Some(c)
          /\ docs' = [docs EXCEPT ![p] = Some(c)]
    /\ ret' = NoCall
    /\ UNCHANGED <<changelog, persisted, others>>

NextUndo ==
    \/ StartSession
    \/ EndSession
    \/ RecordBefore
    \/ RecordAfter
    \/ WriteNote
    \/ \E changeId \in CallerIds : RollbackChange(changeId)

SpecUndo == InitUndo /\ [][NextUndo]_vars

\* the persisted change entries that target document p
EntriesFor(p) ==
    {c \in UNION {Range(persisted[i].changes) : i \in 1..Len(persisted)} : c.filePath = p}

\* the orders in which the identifiers of S can be taken
Orders(S) ==
    {o \in [1..Cardinality(S) -> S] : \A i, j \in 1..Cardinality(S) : o[i] = o[j] => i = j}

\* the vault after rollbackChange was called for order[1], order[2], ... in turn
RolledBack(order) ==
    LET F[i \in 0..Len(order)] ==
            IF i = 0 THEN [docs |-> docs, changelog |-> changelog]
            ELSE rollbackChange(F[i-1].changelog, F[i-1].docs, order[i])
    IN F[Len(order)].docs

\* C27: when a single document has several persisted change entries (each
\* with a non-empty beforeContent, no session open), rolling all of them back
\* one at a time with rollbackChange, in any order, leaves the document at the
\* content it had before the earliest of those changes.
C27_UndoAllAnyOrder ==
    \A p \in Paths :
        (/\ changelog.currentSession = 0
         /\ MemSessions = persisted
         /\ IsSome(docs[p])
         /\ Cardinality(EntriesFor(p)) >= 2
         /\ \A c \in EntriesFor(p) : Truthy(c.beforeContent)) =>
            \E earliest \in {c \in EntriesFor(p) : \A e \in EntriesFor(p) : c.id <= e.id} :
                \A order \in Orders({c.id : c \in EntriesFor(p)}) :
                    RolledBack(order)[p] = earliest.beforeContent

(***************************************************************************)
(* filterLinks against applyLinks                                          *)
(***************************************************************************)
\* C28: filterLinks and applyLinks agree on what is already linked: every
\* suggestion that filterLinks puts in toApply for content C is inserted by
\* applyLinks(C, [suggestion]) (the result differs from C), and every
\* suggestion whose linkTarget is already linked in C, as [[T]] or in alias
\* form [[T|...]], so that applyLinks skips it, is put in toSkip by filterLinks.
C28_FilterAgreesWithApply ==
    patch.fn = "filterLinks" =>
        \A r \in 1..Len(patch.out) :
            /\ \A link \in Range(patch.out[r].toApply) :
                  applyLinks(patch.content, <<link>>) # patch.content
            /\ \A link \in Range(patch.links) :
                  targetLinked(patch.content, link.linkTarget) =>
                      link \in Range(patch.out[r].toSkip)

(***************************************************************************)
(* Recorded changes on their way to the persisted changelog                *)
(***************************************************************************)
\* the change entries recorded in the open session
OpenChanges ==
    IF changelog.currentSession = 0 THEN {}
    ELSE Range(changelog.heap[changelog.currentSession].changes)

\* the change entries of the sessions the service holds after the step
HeldNext ==
    UNION {Range(changelog'.heap[s].changes) : s \in DOMAIN changelog'.heap}

\* C29: no recorded change is silently lost: a change recorded with
\* recordBefore or recordChange while a session is open is present in
\* persisted storage after the next endSession, even if startSession is
\* called again before that endSession.  That is, a startSession call keeps
\* every change of the open session in a session the service still holds,
\* and endSession persists every change of the session it closes.
C29_NoRecordedChangeLost ==
    /\ [][StartSession => \A c \in OpenChanges : c \in HeldNext]_svcVars
    /\ [][EndSession =>
             \A c \in OpenChanges :
                \E i \in 1..Len(persisted') : c \in Range(persisted'[i].changes)]_svcVars

(***************************************************************************)
(* Save-triggered auto-processing: the modify handler runs for the notes   *)
(* that are saved, next to process-current-note, and every await of a      *)
(* command in flight settles in the end (it resolves or it rejects).       *)
(***************************************************************************)
\* some await of command f settles
Settle(f) ==
    \/ ReadFile(f)
    \/ \E result \in OracleResults : AnalyzeNote(f, result)
    \/ ModifyFile(f)
    \/ SaveDone(f)
    \/ SaveFails(f)

NextAuto ==
    \/ DeleteDoc
    \/ \E f \in FlowIds :
          \/ \E file \in Paths : AutoProcess(f, file)
          \/ \E activeFile \in Paths : ProcessCurrentNote(f, activeFile)
          \/ ReadFile(f)
          \/ \E result \in OracleResults : AnalyzeNote(f, result)
          \/ ModifyFile(f)
          \/ SaveDone(f)
          \/ SaveFails(f)

SpecAuto ==
    /\ InitOrch
    /\ [][NextAuto]_vars
    /\ \A f \in FlowIds : WF_vars(Settle(f))

\* the notes that have an auto-processing run in flight
AutoInFlight ==
    {flows[f].file : f \in {g \in FlowIds :
                               /\ flows[g].kind = "auto"
                               /\ flows[g].pc \in {"read", "analyze", "modify", "saving"}}}

\* C30: every document path added to the in-flight set by save-triggered
\* auto-processing is eventually removed from it, whether the processing
\* succeeds or fails, so that a later save of that document is processed
\* again; at every moment the set holds exactly the documents that have an
\* auto-processing run in flight.
C30_InFlightSetReleased ==
    /\ [](processingFiles = AutoInFlight)
    /\ \A p \in Paths : (p \in processingFiles) ~> (p \notin processingFiles)
    /\ [][\A f \in FlowIds, p \in Paths :
             (AutoProcess(f, p) /\ p \notin processingFiles) =>
                 (flows'[f].pc = "read" /\ p \in processingFiles')]_vars

\* C30 witness: the auto-processing of a note has written the note and ended,
\* its path was removed from the set, and a later save of the same note is
\* being processed: the path is in the set again
C30_Witness ==
    /\ flows[1].kind = "auto" /\ flows[1].pc = "done"
    /\ \E w \in writes : w.by = 1 /\ w.path = flows[1].file
    /\ flows[2].kind = "auto" /\ flows[2].pc = "analyze"
    /\ flows[2].file = flows[1].file
    /\ processingFiles = {flows[2].file}

====
